---- MODULE Spec2Model ----
(***************************************************************************)
(* A model of the Prequal director of libvmod-prequal: the probe table     *)
(* (src/src/probe.rs), backend identity (src/src/backend.rs) and the       *)
(* director with its probe loop (src/src/director.rs).                     *)
(*                                                                         *)
(* The specifications share the variables:                                 *)
(*   SpecTable  the ProbeTable API called sequentially (every call holds   *)
(*              the table mutex for its whole mutation), on tables of the  *)
(*              real capacity;                                             *)
(*   SpecWorst  remove_worst_probe called directly on short sample lists;  *)
(*   Spec       the Director with concurrent callers of get_backend,       *)
(*              add_backend / remove_backend and the probe loop, within    *)
(*              one freshness window (the clock stands still);             *)
(*   SpecClock  the Director with one caller and a clock that advances;    *)
(*   SpecUses   the Director with one backend and a history variable that  *)
(*              counts the selections of its sample.                       *)
(***************************************************************************)
EXTENDS Integers, Sequences, FiniteSets, TLC

VARIABLES
    results,     \* ProbeTable.results: the Vec<ProbeResult> behind the mutex
    max_rif,     \* ProbeTable.max_rif: the cached AtomicUsize
    now,         \* SystemTime::now(), in seconds
    last,        \* SpecTable: the last ProbeTable call, its argument, the table it found and its result
    ops,         \* SpecTable: number of ProbeTable calls made so far
    backends,    \* Director.backends: the Vec<Backend> behind the RwLock
    sel_pc,      \* per caller of get_backend: "idle", "cloned" (inside find_best, clone taken), "done"
    probes,      \* per caller: find_best's local clone of the table
    sel_ret,     \* per caller: what get_backend returns
    seen,        \* per caller, history: the table find_best found under the mutex, and when
    rm_pc,       \* remove_backend: "idle", "purged" (write lock held, table purged) or
                 \* "unknown" (write lock held, the handle was not found)
    rm_arg,      \* remove_backend: the handle being removed
    pl_pc,       \* probe loop: "wait" (in recv_timeout), "probing" or "exited"
    to_probe,    \* probe loop: backends_to_probe not yet probed in this round
    removed,     \* history: handles whose remove_backend has returned and that were not added since
    trigger,     \* number of () messages in the probe_trigger channel
    alive,       \* some Arc<Director> exists outside the probe loop
    mutex,       \* SpecLocks: the thread that holds the table's Mutex, or Free
    uses,        \* history, per tracked handle: table selections of its sample since it was stored
    current_rif, \* SimulatedBackend.current_rif: the AtomicUsize
    req,         \* per process_request call: its position and the value its fetch_add returned
    sim_table,   \* PrequalBalancer.probe_table: the Vec<ProbeResult> behind the mutex
    sim_max_rif, \* PrequalBalancer.max_rif
    sim_ret,     \* the id of the backend PrequalBalancer::find_best returned last, 0 for None
    slots,       \* lib.rs ProbeTable.results: the Vec<Option<ProbeResult>> of PROBE_TABLE_SIZE slots
    next_index,  \* lib.rs ProbeTable.next_index
    inserted     \* history: the results passed to the lib.rs add_result, in call order

\* The simulated backend, the simulation's balancer and the ProbeTable of lib.rs
backendVars == <<current_rif, req>>
balancerVars == <<sim_table, sim_max_rif, sim_ret>>
libVars == <<slots, next_index, inserted>>
simVars == <<backendVars, balancerVars, libVars>>

vars == <<results, max_rif, now, last, ops, backends, sel_pc, probes, sel_ret, seen,
          rm_pc, rm_arg, pl_pc, to_probe, removed, trigger, alive, mutex, uses, simVars>>

directorVars ==
    <<backends, sel_pc, probes, sel_ret, seen, rm_pc, rm_arg, pl_pc, to_probe, removed, trigger,
      alive, mutex, uses>>

----------------------------------------------------------------------------
(* Program constants *)

MAX_PROBE_AGE == 5
PROBE_TABLE_SIZE == 16
MAX_USES_BEFORE_EXPIRE == 3
DEFAULT_PROBE_COUNT == 3

(* Bounds of the model *)

MaxTime == 6          \* the clock runs from 0 to MaxTime
MaxOps == 2           \* SpecTable: ProbeTable calls per behaviour
NumHandles == 17      \* SpecTable: the backends have the handles 1..NumHandles
MaxBackends == 2      \* Spec: add_backend is called while the set holds fewer backends
MaxTriggers == 1      \* Spec: a trigger is sent while the channel holds fewer messages

\* Option::None where a Backend is expected; real handles and names are positive
None == [handle |-> 0, name |-> 0]

\* no thread holds the Mutex
Free == <<"free">>

----------------------------------------------------------------------------
(* Backend identity: src/src/backend.rs *)

\* A Backend is (name, address, vcl_backend); the address is carried like the
\* name and never compared, so the record keeps the handle and the name
\* (names are numbers here).
Backend(h, n) == [handle |-> h, name |-> n]

BackendEqAllFields(a, b) == a = b
\* impl PartialEq for Backend: equal iff the vcl_backend pointers are equal
BackendEq(a, b) == a.handle = b.handle

\* impl PartialEq<VCL_BACKEND> for Backend
BackendEqHandle(a, h) == a.handle = h

----------------------------------------------------------------------------
(* Probe samples and the pure helpers of src/src/probe.rs *)

\* ProbeResult::new: used_count starts at 0
NewProbeResult(ts, rif, lat, b) ==
    [timestamp |-> ts, rif |-> rif, est_latency |-> lat, used_count |-> 0, backend |-> b]

\* ProbeResult::increment_used: fetch_add(1) on the sample it is called on
IncrementUsed(p) == [p EXCEPT !.used_count = @ + 1]

IsOverUsedNever(p) == FALSE
\* ProbeResult::is_over_used
IsOverUsed(p) == p.used_count >= MAX_USES_BEFORE_EXPIRE

IsFreshOffByOne(p, t) == t - p.timestamp <= MAX_PROBE_AGE + 1
\* now.duration_since(p.timestamp) <= MAX_PROBE_AGE
IsFresh(p, t) == t - p.timestamp <= MAX_PROBE_AGE

\* remove_stale_and_over_used: retain the samples neither over-used nor stale
RemoveStaleAndOverUsed(rs, t) ==
    SelectSeq(rs, LAMBDA p : ~IsOverUsed(p) /\ IsFresh(p, t))

\* ProbeTable::remove_stale: retain by age only
RemoveStale(rs, t) == SelectSeq(rs, LAMBDA p : IsFresh(p, t))

ThresholdWhole(m) == m
\* (max_rif as f64 * 0.8) as usize: the product truncated toward zero.  For
\* the integers of the model the f64 product is within an ulp of 4m/5, whose
\* fractional part is 0 or at least 0.2, so the truncation is floor(4m/5).
Threshold(m) == (m * 4) \div 5

\* results.iter().map(|p| p.rif).max().unwrap_or(0)
MaxRifOf(rs) ==
    IF Len(rs) = 0 THEN 0
    ELSE LET S == {rs[i].rif : i \in DOMAIN rs}
         IN  CHOOSE m \in S : \A x \in S : x <= m

\* The keys of the closures |(_, probe)| probe.rif and |(_, probe)| probe.est_latency
RifKey(rs) == [i \in DOMAIN rs |-> rs[i].rif]
LatKey(rs) == [i \in DOMAIN rs |-> rs[i].est_latency]

MinByKeyLast(key, S) ==
    CHOOSE i \in S : \A j \in S : key[i] < key[j] \/ (key[i] = key[j] /\ i >= j)
\* Iterator::min_by_key over the indices S: the first minimal element
MinByKey(key, S) ==
    CHOOSE i \in S : \A j \in S : key[i] < key[j] \/ (key[i] = key[j] /\ i <= j)

\* Iterator::max_by_key over the indices S: the last maximal element
MaxByKey(key, S) ==
    CHOOSE i \in S : \A j \in S : key[i] > key[j] \/ (key[i] = key[j] /\ i >= j)

ColdIdx(rs, threshold) == {i \in DOMAIN rs : rs[i].rif <= threshold}
HotIdx(rs, threshold) == {i \in DOMAIN rs : rs[i].rif > threshold}

\* Vec::remove(idx)
RemoveAt(rs, idx) == [i \in 1..(Len(rs) - 1) |-> IF i < idx THEN rs[i] ELSE rs[i + 1]]

RemoveWorstProbeTwice(rs, m) ==
    IF Len(rs) <= 1 THEN <<>>
    ELSE RemoveAt(RemoveAt(rs, MaxByKey(LatKey(rs), DOMAIN rs)), 1)
RemoveWorstProbeByLatency(rs, m) ==
    IF Len(rs) = 0 THEN rs ELSE RemoveAt(rs, MaxByKey(LatKey(rs), DOMAIN rs))
\* remove_worst_probe: the hot sample of highest latency, else the cold one
RemoveWorstProbe(rs, m) ==
    IF Len(rs) = 0 THEN rs
    ELSE LET threshold == Threshold(m)
             hot == HotIdx(rs, threshold)
             cold == ColdIdx(rs, threshold)
             worst == IF hot # {} THEN MaxByKey(LatKey(rs), hot)
                      ELSE MaxByKey(LatKey(rs), cold)
         IN  RemoveAt(rs, worst)

EvictLoopNever(rs, m) == rs
\* while results.len() > PROBE_TABLE_SIZE { remove_worst_probe(..) }
RECURSIVE EvictLoop(_, _)
EvictLoop(rs, m) ==
    IF Len(rs) > PROBE_TABLE_SIZE THEN EvictLoop(RemoveWorstProbe(rs, m), m) ELSE rs

\* the number of times the body of that loop runs
RECURSIVE EvictPasses(_, _)
EvictPasses(rs, m) ==
    IF Len(rs) > PROBE_TABLE_SIZE THEN 1 + EvictPasses(RemoveWorstProbe(rs, m), m) ELSE 0

DedupKeepAll(rs, b) == rs
\* results.retain(|p| p.backend != result.backend)
Dedup(rs, b) == SelectSeq(rs, LAMBDA p : ~BackendEq(p.backend, b))

AddResultMaxBeforePush(rs, result, t) ==
    LET pruned == RemoveStaleAndOverUsed(rs, t)
        pushed == Append(Dedup(pruned, result.backend), result)
        m == MaxRifOf(pruned)
    IN  [results |-> EvictLoop(pushed, m), max_rif |-> m]
\* ProbeTable::add_result under the mutex: the new table and the max_rif it
\* stores, which is computed after the push and before the evictions.
AddResult(rs, result, t) ==
    LET pruned == RemoveStaleAndOverUsed(rs, t)
        pushed == Append(Dedup(pruned, result.backend), result)
        m == MaxRifOf(pushed)
    IN  [results |-> EvictLoop(pushed, m), max_rif |-> m]

FindBestPruneNothing(rs, t) == rs
\* ProbeTable::find_best, the part under the mutex: an empty table returns
\* None at once and is left alone, otherwise it is pruned and cloned.
FindBestPrune(rs, t) == IF Len(rs) = 0 THEN rs ELSE RemoveStaleAndOverUsed(rs, t)

BestIdxColdOnly(ps, m) ==
    LET cold == ColdIdx(ps, Threshold(m))
    IN  IF cold # {} THEN MinByKey(LatKey(ps), cold) ELSE 0
\* ProbeTable::find_best, the part after the mutex is released: the index in
\* the clone ps of the HCL choice under the cached max_rif m, 0 for None.
BestIdx(ps, m) ==
    LET threshold == Threshold(m)
        cold == ColdIdx(ps, threshold)
        hot == HotIdx(ps, threshold)
    IN  IF cold # {} THEN MinByKey(LatKey(ps), cold)
        ELSE IF hot # {} THEN MinByKey(RifKey(ps), hot)
        ELSE 0

\* best.increment_used() acts on the element of the clone: the clone after
\* the call.  The clone is dropped when find_best returns.
CloneAfterUse(ps, idx) ==
    IF idx = 0 THEN ps ELSE [ps EXCEPT ![idx] = IncrementUsed(ps[idx])]

\* Some(best.backend.clone()), or None
BestBackend(ps, idx) == IF idx = 0 THEN None ELSE ps[idx].backend

\* ProbeTable::remove_backend
PurgeBackend(rs, b) == SelectSeq(rs, LAMBDA p : ~BackendEq(p.backend, b))

----------------------------------------------------------------------------
(* SpecTable: the ProbeTable API, called sequentially *)

\* The backend the host registers for handle h, and the same handle under
\* another name (a Backend rebuilt after the host renamed it).
Bk(h) == Backend(h, h)
BkRenamed(h) == Backend(h, h + 100)

NoSample == NewProbeResult(0, 0, 0, None)

\* Inputs of add_result: samples for the first table slot's backend (also
\* renamed) and for a backend no initial table holds.  6 > floor(0.8 * 6) and
\* 5 > floor(0.8 * 6): 5 and 6 are both hot when 6 is the maximum; 5 and 6 are
\* cold when the maximum is 10.
RifVals == {1, 5, 6, 10}
LatVals == {1, 20}
InsertBackends == {Bk(1), BkRenamed(1), Bk(NumHandles)}

\* A ProbeResult as ProbeResult::new builds it, taken now; and one that was
\* handed out MAX_USES_BEFORE_EXPIRE times before it is stored (used_count is
\* a public field and increment_used a public method of ProbeResult).
TableSamples(t) ==
    {NewProbeResult(t, r, l, b) : r \in RifVals, l \in LatVals, b \in InsertBackends}
    \cup {[NewProbeResult(t, 1, 1, b) EXCEPT !.used_count = MAX_USES_BEFORE_EXPIRE] :
            b \in InsertBackends}

\* Tables of PROBE_TABLE_SIZE samples, as PROBE_TABLE_SIZE calls of add_result
\* at time 0 for the handles 1..PROBE_TABLE_SIZE leave them.
ScenarioRif(s, h) ==
    CASE s = 1 -> 1
      [] s = 2 -> IF h <= 8 THEN 6 ELSE 5
      [] s = 3 -> IF h <= 8 THEN 5 ELSE 1
      [] s = 4 -> IF h <= 8 THEN 10 ELSE 1
\* in scenario 4 the samples have the same latency two by two
ScenarioLat(s, h) == IF s = 4 THEN (h + 1) \div 2 ELSE h
FullTable(s) ==
    [h \in 1..PROBE_TABLE_SIZE |->
        NewProbeResult(0, ScenarioRif(s, h), ScenarioLat(s, h), Bk(h))]
Scenarios == 1..4
InitTables == {<<>>} \cup {FullTable(s) : s \in Scenarios}

\* The clock advances to the last instant a sample taken before is still
\* fresh, or to the first instant it is stale.
TickSteps == {MAX_PROBE_AGE, MAX_PROBE_AGE + 1}

NoCall == [op |-> "none", sample |-> NoSample, backend |-> None,
           before |-> <<>>, before_max |-> 0, at |-> 0, ret |-> None]

Call(op, sample, b, ret) ==
    [op |-> op, sample |-> sample, backend |-> b,
     before |-> results, before_max |-> max_rif, at |-> now, ret |-> ret]

\* No simulated backend call, empty simulation table, ProbeTable::new() of lib.rs not called
BackendIdle == current_rif = 0 /\ req = <<>>
BalancerIdle == sim_table = <<>> /\ sim_max_rif = 0 /\ sim_ret = 0
LibIdle == slots = <<>> /\ next_index = 0 /\ inserted = <<>>
SimIdle == BackendIdle /\ BalancerIdle /\ LibIdle

DirectorIdle ==
    /\ backends = <<>>
    /\ sel_pc = <<>>
    /\ probes = <<>>
    /\ sel_ret = <<>>
    /\ seen = <<>>
    /\ rm_pc = "idle"
    /\ rm_arg = 0
    /\ pl_pc = "wait"
    /\ to_probe = <<>>
    /\ removed = {}
    /\ trigger = 0
    /\ alive = TRUE
    /\ mutex = Free
    /\ uses = <<>>

InitTable ==
    /\ results \in InitTables
    /\ max_rif = MaxRifOf(results)
    /\ now = 0
    /\ last = NoCall
    /\ ops = 0
    /\ DirectorIdle
    /\ SimIdle

\* table.add_result(sample)
TAddResult(sample) ==
    /\ ops < MaxOps
    /\ LET r == AddResult(results, sample, now)
       IN  /\ results' = r.results
           /\ max_rif' = r.max_rif
    /\ last' = Call("add_result", sample, sample.backend, None)
    /\ ops' = ops + 1
    /\ UNCHANGED <<now>>
    /\ UNCHANGED <<directorVars, simVars>>

\* table.find_best(): the clone is taken and used within the same call
TFindBest ==
    /\ ops < MaxOps
    /\ LET pruned == FindBestPrune(results, now)
           idx == BestIdx(pruned, max_rif)
       IN  /\ results' = pruned
           /\ last' = Call("find_best", NoSample, None, BestBackend(pruned, idx))
    /\ ops' = ops + 1
    /\ UNCHANGED <<max_rif, now>>
    /\ UNCHANGED <<directorVars, simVars>>

\* table.remove_backend(b)
TRemoveBackend(b) ==
    /\ ops < MaxOps
    /\ results' = PurgeBackend(results, b)
    /\ last' = Call("remove_backend", NoSample, b, None)
    /\ ops' = ops + 1
    /\ UNCHANGED <<max_rif, now>>
    /\ UNCHANGED <<directorVars, simVars>>

\* table.remove_stale()
TRemoveStale ==
    /\ ops < MaxOps
    /\ results' = RemoveStale(results, now)
    /\ last' = Call("remove_stale", NoSample, None, None)
    /\ ops' = ops + 1
    /\ UNCHANGED <<max_rif, now>>
    /\ UNCHANGED <<directorVars, simVars>>

\* the clock advances between calls
TTick(d) ==
    /\ now + d <= MaxTime
    /\ now' = now + d
    /\ UNCHANGED <<results, max_rif, last, ops>>
    /\ UNCHANGED <<directorVars, simVars>>

NextTable ==
    \/ \E sample \in TableSamples(now) : TAddResult(sample)
    \/ TFindBest
    \/ \E b \in InsertBackends : TRemoveBackend(b)
    \/ TRemoveStale
    \/ \E d \in TickSteps : TTick(d)

SpecTable == InitTable /\ [][NextTable]_vars

----------------------------------------------------------------------------
(* SpecWorst: remove_worst_probe called directly, as the unit tests call it *)

\* Sample lists of up to MaxWorstLen samples, the sample at position i from
\* backend i; latencies repeat, so that the maximum can be tied.  The max_rif
\* argument is any number, not only the maximum of the list (the tests pass
\* 100): 0 makes every positive rif hot, 6 gives the threshold 4, 10 gives 8,
\* 100 makes every sample cold.
MaxWorstLen == 3
WorstRifVals == {0, 5, 10}
WorstLatVals == {1, 2}
WorstMaxRifs == {0, 6, 10, 100}
WorstLists ==
    UNION {[1..n -> WorstRifVals \X WorstLatVals] : n \in 0..MaxWorstLen}
WorstTable(f) ==
    [i \in DOMAIN f |-> NewProbeResult(0, f[i][1], f[i][2], Bk(i))]

InitWorst ==
    /\ results \in {WorstTable(f) : f \in WorstLists}
    /\ max_rif \in WorstMaxRifs
    /\ now = 0
    /\ last = NoCall
    /\ ops = 0
    /\ DirectorIdle
    /\ SimIdle

\* remove_worst_probe(&mut results, max_rif)
TRemoveWorstProbe ==
    /\ ops < MaxOps
    /\ results' = RemoveWorstProbe(results, max_rif)
    /\ last' = Call("remove_worst_probe", NoSample, None, None)
    /\ ops' = ops + 1
    /\ UNCHANGED <<max_rif, now>>
    /\ UNCHANGED <<directorVars, simVars>>

NextWorst == TRemoveWorstProbe

SpecWorst == InitWorst /\ [][NextWorst]_vars

----------------------------------------------------------------------------
(* Spec: the Director, its callers and its probe loop *)

\* Threads that call get_backend
Callers == {1, 2}

\* Backends the host hands to add_backend, and the handles it removes
BackendPool == {Bk(1), Bk(2)}
DirHandles == {b.handle : b \in BackendPool}

\* What a valid probe response reports (X-In-Flight, X-Estimated-Latency)
ProbeResponses == {[rif |-> 1, lat |-> 2], [rif |-> 5, lat |-> 1]}

Min(a, b) == IF a < b THEN a ELSE b

\* get_backend's result: Err(BackendLockError("No backends available")), or
\* Ok(backend) from the table (find_best gave Some) or from the random fallback
\* (from_table tells the two apart; sample is the element of find_best's clone
\* the backend was taken from).
NoRet == [status |-> "none", backend |-> None, from_table |-> FALSE, sample |-> NoSample]
ErrNoBackends == [status |-> "err", backend |-> None, from_table |-> FALSE, sample |-> NoSample]
FromTable(p) == [status |-> "ok", backend |-> p.backend, from_table |-> TRUE, sample |-> p]
FromFallback(b) == [status |-> "ok", backend |-> b, from_table |-> FALSE, sample |-> NoSample]

NotSeen == [called |-> FALSE, before |-> <<>>, at |-> 0, max |-> 0]
Seen(rs, t) ==
    [called |-> TRUE, before |-> rs, at |-> t, max |-> IF Len(rs) = 0 THEN 0 ELSE max_rif]

\* The history variable uses counts for the handles in its domain
CountUse(h) ==
    IF h \in DOMAIN uses
    THEN [uses EXCEPT ![h] = Min(@ + 1, MAX_USES_BEFORE_EXPIRE + 1)]
    ELSE uses
ResetUse(h) == IF h \in DOMAIN uses THEN [uses EXCEPT ![h] = 0] ELSE uses

\* The backend-set RwLock: get_backend holds a read guard from its first line
\* to its return, remove_backend a write guard for its whole body, add_backend
\* a write guard for its push; probe_backends drops its read guard with the
\* snapshot, before the first request.
ReadersOf == {c \in Callers : sel_pc[c] # "idle"}
WriteLockFreeAfterRound == rm_pc = "idle" /\ ReadersOf = {} /\ pl_pc = "wait"
WriteLockFree == rm_pc = "idle" /\ ReadersOf = {}
ReadLockFree == rm_pc = "idle"

Init ==
    /\ results = <<>>
    /\ max_rif = 0
    /\ now = 0
    /\ last = NoCall
    /\ ops = 0
    /\ backends = <<>>
    /\ sel_pc = [c \in Callers |-> "idle"]
    /\ probes = [c \in Callers |-> <<>>]
    /\ sel_ret = [c \in Callers |-> NoRet]
    /\ seen = [c \in Callers |-> NotSeen]
    /\ rm_pc = "idle"
    /\ rm_arg = 0
    /\ pl_pc = "wait"
    /\ to_probe = <<>>
    /\ removed = {}
    /\ trigger = 0
    /\ alive = TRUE
    /\ mutex = Free
    /\ SimIdle
    /\ uses = <<>>

\* Director::add_backend: push under the write lock
AddBackend(b) ==
    /\ alive
    /\ WriteLockFree
    /\ Len(backends) < MaxBackends
    /\ backends' = Append(backends, b)
    /\ removed' = removed \ {b.handle}
    /\ UNCHANGED <<results, max_rif, now, last, ops, sel_pc, probes, sel_ret, seen,
                   rm_pc, rm_arg, pl_pc, to_probe, trigger, uses, alive, mutex, simVars>>

FindBackendAny(bs, h) == IF Len(bs) > 0 THEN 1 ELSE 0
\* backends.iter().find(|b| **b == vcl_backend): index of the first match, 0 if none
FindBackend(bs, h) ==
    IF \E i \in DOMAIN bs : BackendEqHandle(bs[i], h)
    THEN CHOOSE i \in DOMAIN bs :
            /\ BackendEqHandle(bs[i], h)
            /\ \A j \in DOMAIN bs : BackendEqHandle(bs[j], h) => i <= j
    ELSE 0

\* backends.retain(|b| *b != vcl_backend)
RetainNone(bs, h) == <<>>
RetainOthers(bs, h) == SelectSeq(bs, LAMBDA b : ~BackendEqHandle(b, h))

\* Director::remove_backend up to the end of probe_table.remove_backend: takes
\* the write lock and looks the handle up; a known backend's samples are
\* purged, for an unknown handle the body of the if let is skipped.
RemoveBackendBegin(h) ==
    /\ alive
    /\ WriteLockFree
    /\ LET i == FindBackend(backends, h)
       IN  IF i # 0
           THEN /\ results' = PurgeBackend(results, backends[i])
                /\ rm_pc' = "purged"
           ELSE /\ rm_pc' = "unknown"
                /\ UNCHANGED results
    /\ rm_arg' = h
    /\ UNCHANGED <<max_rif, now, last, ops, backends, sel_pc, probes, sel_ret, seen,
                   pl_pc, to_probe, removed, trigger, uses, alive, mutex, simVars>>

\* Director::remove_backend, the retain (for a known backend) and the return:
\* the write lock is released
RemoveBackendFinish ==
    /\ rm_pc # "idle"
    /\ backends' = IF rm_pc = "purged" THEN RetainOthers(backends, rm_arg) ELSE backends
    /\ removed' = removed \cup {rm_arg}
    /\ rm_pc' = "idle"
    /\ rm_arg' = 0
    /\ UNCHANGED <<results, max_rif, now, last, ops, sel_pc, probes, sel_ret, seen,
                   pl_pc, to_probe, trigger, uses, alive, mutex, simVars>>

\* Director::trigger_probe: send(()) on the channel, which never blocks
TriggerProbe ==
    /\ alive
    /\ trigger < MaxTriggers
    /\ trigger' = trigger + 1
    /\ UNCHANGED <<results, max_rif, now, last, ops, backends, sel_pc, probes, sel_ret,
                   seen, rm_pc, rm_arg, pl_pc, to_probe, removed, uses, alive, mutex, simVars>>

\* Ok(backends[rand::random::<usize>() % backends.len()].clone())
Fallback(c) ==
    \E i \in DOMAIN backends :
        sel_ret' = [sel_ret EXCEPT ![c] = FromFallback(backends[i])]

TriggersSentAlways(bs) == 1
\* get_backend returns its error before the send(()): the number of triggers
\* a call sends on the set bs
TriggersSent(bs) == IF Len(bs) = 0 THEN 0 ELSE 1

\* Director::get_backend up to the end of find_best's critical section: read
\* lock taken, empty set refused before anything else, else a trigger sent and
\* the table pruned and cloned (an empty table makes find_best return None
\* before pruning).
GetBackendBegin(c) ==
    /\ alive
    /\ sel_pc[c] = "idle"
    /\ ReadLockFree
    /\ trigger + TriggersSent(backends) <= MaxTriggers
    /\ trigger' = trigger + TriggersSent(backends)
    /\ IF Len(backends) = 0
       THEN /\ sel_ret' = [sel_ret EXCEPT ![c] = ErrNoBackends]
            /\ sel_pc' = [sel_pc EXCEPT ![c] = "done"]
            /\ UNCHANGED <<results, probes, seen>>
       ELSE /\ seen' = [seen EXCEPT ![c] = Seen(results, now)]
            /\ IF Len(results) = 0
               THEN /\ Fallback(c)
                    /\ sel_pc' = [sel_pc EXCEPT ![c] = "done"]
                    /\ UNCHANGED <<results, probes>>
               ELSE /\ results' = FindBestPrune(results, now)
                    /\ probes' = [probes EXCEPT ![c] = results']
                    /\ sel_pc' = [sel_pc EXCEPT ![c] = "cloned"]
                    /\ UNCHANGED sel_ret
    /\ UNCHANGED <<max_rif, now, last, ops, backends, rm_pc, rm_arg, pl_pc,
                   to_probe, removed, uses, alive, mutex, simVars>>

\* find_best after the mutex: load max_rif, choose in the clone, increment the
\* clone's counter, drop the clone; get_backend takes the choice or falls back.
FindBestChoose(c) ==
    /\ sel_pc[c] = "cloned"
    /\ LET idx == BestIdx(probes[c], max_rif)
           used == CloneAfterUse(probes[c], idx)
       IN  IF idx # 0
           THEN /\ sel_ret' = [sel_ret EXCEPT ![c] = FromTable(used[idx])]
                /\ uses' = CountUse(BestBackend(used, idx).handle)
           ELSE /\ Fallback(c)
                /\ UNCHANGED uses
    /\ probes' = [probes EXCEPT ![c] = <<>>]
    /\ sel_pc' = [sel_pc EXCEPT ![c] = "done"]
    /\ UNCHANGED <<results, max_rif, now, last, ops, backends, seen, rm_pc, rm_arg,
                   pl_pc, to_probe, removed, trigger, alive, mutex, simVars>>

\* get_backend returns: the read guard is dropped
GetBackendReturn(c) ==
    /\ sel_pc[c] = "done"
    /\ sel_pc' = [sel_pc EXCEPT ![c] = "idle"]
    /\ sel_ret' = [sel_ret EXCEPT ![c] = NoRet]
    /\ seen' = [seen EXCEPT ![c] = NotSeen]
    /\ UNCHANGED <<results, max_rif, now, last, ops, backends, probes, rm_pc,
                   rm_arg, pl_pc, to_probe, removed, trigger, uses, alive, mutex, simVars>>

\* The subsequence of bs at the indices S, in order
RECURSIVE SubSeqAt(_, _, _)
SubSeqAt(bs, S, i) ==
    IF i > Len(bs) THEN <<>>
    ELSE IF i \in S THEN <<bs[i]>> \o SubSeqAt(bs, S, i + 1)
    ELSE SubSeqAt(bs, S, i + 1)

\* backends.iter().choose_multiple(&mut rng, count): min(count, n) distinct
\* elements of the set
ChooseMultiple(bs, count) ==
    {SubSeqAt(bs, S, 1) : S \in {T \in SUBSET DOMAIN bs : Cardinality(T) = Min(count, Len(bs))}}

LoopTopForever == "wait"
\* while let Some(director) = inner.upgrade(): the iteration's strong reference
\* is dropped at the end of the body, and the upgrade that follows succeeds
\* iff another Arc<Director> exists; then the loop is in recv_timeout again
LoopTop == IF alive THEN "wait" ELSE "exited"

\* Director::probe_backends, the snapshot under the read lock
StartRound(count) ==
    /\ \E chosen \in ChooseMultiple(backends, count) :
           /\ to_probe' = chosen
           /\ pl_pc' = IF Len(chosen) = 0 THEN LoopTop ELSE "probing"

ReceivedAll(pending) == 0
\* rx.recv_timeout(..).is_ok(): one message is taken off the channel
Received(pending) == pending - 1

\* probe loop, recv_timeout took a trigger off the channel:
\* probe_backends(DEFAULT_PROBE_COUNT)
ProbeOnTrigger ==
    /\ pl_pc = "wait"
    /\ trigger > 0
    /\ ReadLockFree
    /\ trigger' = Received(trigger)
    /\ StartRound(DEFAULT_PROBE_COUNT)
    /\ UNCHANGED <<results, max_rif, now, last, ops, backends, sel_pc, probes,
                   sel_ret, seen, rm_pc, rm_arg, removed, uses, alive, mutex, simVars>>

HasEnoughProbesWhenFull(pool_size) == pool_size >= PROBE_TABLE_SIZE
\* ProbeTable::has_enough_probes, after its remove_stale: pool_size is len()
HasEnoughProbes(pool_size) == pool_size >= PROBE_TABLE_SIZE \div 2

\* probe loop, recv_timeout timed out on an empty channel: ensure_probe_pool
EnsureProbePool ==
    /\ pl_pc = "wait"
    /\ trigger = 0
    /\ ReadLockFree
    /\ results' = RemoveStale(results, now)
    /\ IF HasEnoughProbes(Len(results'))
       THEN /\ pl_pc' = LoopTop
            /\ UNCHANGED to_probe
       ELSE StartRound(PROBE_TABLE_SIZE \div 2)
    /\ UNCHANGED <<max_rif, now, last, ops, backends, sel_pc, probes, sel_ret, seen,
                   rm_pc, rm_arg, removed, trigger, uses, alive, mutex, simVars>>

\* One backend of the round answered with status 200 and both headers: the
\* sample is stamped now and inserted.
ProbeValid(i, resp) ==
    /\ pl_pc = "probing"
    /\ i \in DOMAIN to_probe
    /\ LET r == AddResult(results, NewProbeResult(now, resp.rif, resp.lat, to_probe[i]), now)
       IN  /\ results' = r.results
           /\ max_rif' = r.max_rif
    /\ uses' = ResetUse(to_probe[i].handle)
    /\ to_probe' = RemoveAt(to_probe, i)
    /\ pl_pc' = IF Len(to_probe) = 1 THEN LoopTop ELSE "probing"
    /\ UNCHANGED <<now, last, ops, backends, sel_pc, probes, sel_ret, seen, rm_pc,
                   rm_arg, removed, trigger, alive, mutex, simVars>>

\* One backend of the round failed (error, timeout, non-200, bad header)
ProbeFailed(i) ==
    /\ pl_pc = "probing"
    /\ i \in DOMAIN to_probe
    /\ to_probe' = RemoveAt(to_probe, i)
    /\ pl_pc' = IF Len(to_probe) = 1 THEN LoopTop ELSE "probing"
    /\ UNCHANGED <<results, max_rif, now, last, ops, backends, sel_pc, probes,
                   sel_ret, seen, rm_pc, rm_arg, removed, trigger, uses, alive, mutex, simVars>>

\* the clock advances
Tick(d) ==
    /\ now + d <= MaxTime
    /\ now' = now + d
    /\ UNCHANGED <<results, max_rif, last, ops, alive>>
    /\ UNCHANGED <<directorVars, simVars>>

Next ==
    \/ \E b \in BackendPool : AddBackend(b)
    \/ \E h \in DirHandles : RemoveBackendBegin(h)
    \/ RemoveBackendFinish
    \/ TriggerProbe
    \/ \E c \in Callers : GetBackendBegin(c)
    \/ \E c \in Callers : FindBestChoose(c)
    \/ \E c \in Callers : GetBackendReturn(c)
    \/ ProbeOnTrigger
    \/ EnsureProbePool
    \/ \E i \in 1..MaxBackends, resp \in ProbeResponses : ProbeValid(i, resp)
    \/ \E i \in 1..MaxBackends : ProbeFailed(i)

Spec == Init /\ [][Next]_vars

\* The Director over several freshness windows: the clock advances between
\* the steps of one caller, the probe loop and add/remove_backend.
ClockCallers == {1}

NextClock ==
    \/ \E b \in BackendPool : AddBackend(b)
    \/ \E h \in DirHandles : RemoveBackendBegin(h)
    \/ RemoveBackendFinish
    \/ TriggerProbe
    \/ \E c \in ClockCallers : GetBackendBegin(c)
    \/ \E c \in ClockCallers : FindBestChoose(c)
    \/ \E c \in ClockCallers : GetBackendReturn(c)
    \/ ProbeOnTrigger
    \/ EnsureProbePool
    \/ \E i \in 1..MaxBackends, resp \in ProbeResponses : ProbeValid(i, resp)
    \/ \E i \in 1..MaxBackends : ProbeFailed(i)
    \/ \E d \in TickSteps : Tick(d)

SpecClock == Init /\ [][NextClock]_vars

\* The Director with one backend and the history variable uses counting the
\* selections of its sample since it was stored (scenario S4, with concurrent
\* callers; a probe that fails leaves the stored sample in place)
InitUses ==
    /\ results = <<>>
    /\ max_rif = 0
    /\ now = 0
    /\ last = NoCall
    /\ ops = 0
    /\ backends = <<>>
    /\ sel_pc = [c \in Callers |-> "idle"]
    /\ probes = [c \in Callers |-> <<>>]
    /\ sel_ret = [c \in Callers |-> NoRet]
    /\ seen = [c \in Callers |-> NotSeen]
    /\ rm_pc = "idle"
    /\ rm_arg = 0
    /\ pl_pc = "wait"
    /\ to_probe = <<>>
    /\ removed = {}
    /\ trigger = 0
    /\ alive = TRUE
    /\ mutex = Free
    /\ SimIdle
    /\ uses = [h \in {Bk(1).handle} |-> 0]

NextUses ==
    \/ AddBackend(Bk(1))
    \/ \E c \in Callers : GetBackendBegin(c)
    \/ \E c \in Callers : FindBestChoose(c)
    \/ \E c \in Callers : GetBackendReturn(c)
    \/ ProbeOnTrigger
    \/ \E i \in 1..MaxBackends, resp \in ProbeResponses : ProbeValid(i, resp)
    \/ \E i \in 1..MaxBackends : ProbeFailed(i)

SpecUses == InitUses /\ [][NextUses]_vars

\* The characters of a header value, and the value of a decimal digit
DigitChars == <<"0", "1", "2", "3", "4", "5", "6", "7", "8", "9">>
IsDigit(c) == \E d \in DOMAIN DigitChars : DigitChars[d] = c
DigitVal(c) == (CHOOSE d \in DOMAIN DigitChars : DigitChars[d] = c) - 1

\* The digit loop of str::parse::<usize>: -1 stands for Err(InvalidDigit)
RECURSIVE ParseDigits(_, _)
ParseDigits(ds, acc) ==
    IF Len(ds) = 0 THEN acc
    ELSE IF ~IsDigit(Head(ds)) THEN -1
    ELSE ParseDigits(Tail(ds), acc * 10 + DigitVal(Head(ds)))

RECURSIVE SkipJunk(_)
SkipJunk(ds) ==
    IF Len(ds) = 0 THEN ds
    ELSE IF IsDigit(Head(ds)) THEN <<Head(ds)>> \o SkipJunk(Tail(ds))
    ELSE SkipJunk(Tail(ds))
ParseUsizeLenient(text) == ParseDigits(SkipJunk(text), 0)
\* s.parse::<usize>().ok(), -1 for None: the empty string and a lone sign are
\* errors, one leading "+" is accepted, a "-" is an invalid digit for an
\* unsigned type.  (The values of the model are far below usize::MAX, so the
\* overflow error does not arise.)
ParseUsize(text) ==
    IF Len(text) = 0 THEN -1
    ELSE IF Len(text) = 1 /\ Head(text) \in {"+", "-"} THEN -1
    ELSE IF Head(text) = "+" THEN ParseDigits(Tail(text), 0)
    ELSE ParseDigits(text, 0)

\* response.header(name).and_then(|s| s.parse::<usize>().ok()), -1 for None
HeaderParse(h) == IF h.present THEN ParseUsize(h.text) ELSE -1

\* What comes back from request.call(): Err (timeout, connection error, a
\* status of 400 or more) or Ok(response) with a status and the two headers
NoHeader == [present |-> FALSE, text |-> <<>>]
Header(text) == [present |-> TRUE, text |-> text]
HeaderValues ==
    {NoHeader, Header(<<>>), Header(<<"+">>), Header(<<"1", "0">>), Header(<<"+", "5">>),
     Header(<<"-", "1">>)}
CallErr == [ok |-> FALSE, status |-> 0, in_flight |-> NoHeader, est_latency |-> NoHeader]
Response(st, f, l) == [ok |-> TRUE, status |-> st, in_flight |-> f, est_latency |-> l]
HttpResponses ==
    {CallErr, Response(204, Header(<<"1", "0">>), Header(<<"+", "5">>))}
    \cup {Response(200, f, l) : f \in HeaderValues, l \in HeaderValues}

\* The body of the for loop of probe_backends for the backend at position i
\* of the round and the outcome r of its request
ProbeAnswer(i, r) ==
    IF /\ r.ok
       /\ r.status = 200
       /\ HeaderParse(r.in_flight) # -1
       /\ HeaderParse(r.est_latency) # -1
    THEN ProbeValid(i, [rif |-> HeaderParse(r.in_flight), lat |-> HeaderParse(r.est_latency)])
    ELSE ProbeFailed(i)

\* The probe loop on triggers with every outcome of a request; the clock
\* advances past the age of the samples stored before
NextProbe ==
    \/ TriggerProbe
    \/ ProbeOnTrigger
    \/ \E i \in 1..MaxBackends, r \in HttpResponses : ProbeAnswer(i, r)
    \/ Tick(MAX_PROBE_AGE + 1)

\* A director with two distinct backends and an empty table
InitProbe ==
    /\ results = <<>>
    /\ max_rif = 0
    /\ now = 0
    /\ last = NoCall
    /\ ops = 0
    /\ backends = <<Bk(1), Bk(2)>>
    /\ sel_pc = [c \in Callers |-> "idle"]
    /\ probes = [c \in Callers |-> <<>>]
    /\ sel_ret = [c \in Callers |-> NoRet]
    /\ seen = [c \in Callers |-> NotSeen]
    /\ rm_pc = "idle"
    /\ rm_arg = 0
    /\ pl_pc = "wait"
    /\ to_probe = <<>>
    /\ removed = {}
    /\ trigger = 0
    /\ alive = TRUE
    /\ mutex = Free
    /\ SimIdle
    /\ uses = <<>>

SpecProbe == InitProbe /\ [][NextProbe]_vars

----------------------------------------------------------------------------
(* SpecRead: the operations that read the table, between inserts and ticks *)

\* Samples handed to add_result: one taken now, one handed out
\* MAX_USES_BEFORE_EXPIRE times already, and one whose timestamp is older
\* than MAX_PROBE_AGE when it is inserted.
ReadSamples(t) ==
    {NewProbeResult(t, 1, 1, Bk(NumHandles)),
     [NewProbeResult(t, 1, 1, Bk(NumHandles)) EXCEPT !.used_count = MAX_USES_BEFORE_EXPIRE]}
    \cup (IF t > MAX_PROBE_AGE
          THEN {NewProbeResult(t - (MAX_PROBE_AGE + 1), 1, 1, Bk(NumHandles))}
          ELSE {})

HasProbesAlways(rs) == TRUE
\* ProbeTable::has_probes
HasProbes(rs) == Len(rs) # 0

\* the lines display_results formats, one per stored sample
DisplayResults(rs, t) ==
    [i \in DOMAIN rs |->
        [idx |-> i - 1, backend |-> rs[i].backend.name, in_flight |-> rs[i].rif,
         latency |-> rs[i].est_latency, used |-> rs[i].used_count,
         age |-> t - rs[i].timestamp]]

\* table.len()
TLen ==
    /\ ops < MaxOps
    /\ last' = Call("len", NoSample, None, Len(results))
    /\ ops' = ops + 1
    /\ UNCHANGED <<results, max_rif, now>>
    /\ UNCHANGED <<directorVars, simVars>>

\* table.has_probes()
THasProbes ==
    /\ ops < MaxOps
    /\ last' = Call("has_probes", NoSample, None, HasProbes(results))
    /\ ops' = ops + 1
    /\ UNCHANGED <<results, max_rif, now>>
    /\ UNCHANGED <<directorVars, simVars>>

\* table.has_enough_probes(): remove_stale, then len
THasEnoughProbes ==
    /\ ops < MaxOps
    /\ results' = RemoveStale(results, now)
    /\ last' = Call("has_enough_probes", NoSample, None, HasEnoughProbes(Len(results')))
    /\ ops' = ops + 1
    /\ UNCHANGED <<max_rif, now>>
    /\ UNCHANGED <<directorVars, simVars>>

\* table.display_results()
TDisplayResults ==
    /\ ops < MaxOps
    /\ last' = Call("display_results", NoSample, None, DisplayResults(results, now))
    /\ ops' = ops + 1
    /\ UNCHANGED <<results, max_rif, now>>
    /\ UNCHANGED <<directorVars, simVars>>

\* director.is_healthy()
IsHealthy ==
    /\ ops < MaxOps
    /\ last' = Call("is_healthy", NoSample, None, HasProbes(results))
    /\ ops' = ops + 1
    /\ UNCHANGED <<results, max_rif, now>>
    /\ UNCHANGED <<directorVars, simVars>>

\* A director with no backend or two, whose table is empty or full
InitRead ==
    /\ results \in InitTables
    /\ max_rif = MaxRifOf(results)
    /\ now = 0
    /\ last = NoCall
    /\ ops = 0
    /\ backends \in {<<>>, <<Bk(1), Bk(2)>>}
    /\ sel_pc = <<>>
    /\ probes = <<>>
    /\ sel_ret = <<>>
    /\ seen = <<>>
    /\ rm_pc = "idle"
    /\ rm_arg = 0
    /\ pl_pc = "wait"
    /\ to_probe = <<>>
    /\ removed = {}
    /\ trigger = 0
    /\ alive = TRUE
    /\ mutex = Free
    /\ SimIdle
    /\ uses = <<>>

NextRead ==
    \/ \E sample \in ReadSamples(now) : TAddResult(sample)
    \/ TFindBest
    \/ TLen
    \/ THasProbes
    \/ THasEnoughProbes
    \/ TDisplayResults
    \/ IsHealthy
    \/ \E d \in TickSteps : TTick(d)

SpecRead == InitRead /\ [][NextRead]_vars

----------------------------------------------------------------------------
(* SpecSkew: the table under a wall clock that is also set back.  now is
   SystemTime::now(); now.duration_since(ts) is Err when ts is later than
   now, and unwrap() of it panics.  A panic under the mutex poisons it; the
   behaviour ends at the panic. *)

\* what a call returned, or that it unwound with a panic
Returned(v) == [panicked |-> FALSE, value |-> v]
Unwound == [panicked |-> TRUE, value |-> None]
Poisoned == last.op # "none" /\ last.ret.panicked

\* duration_since(p.timestamp) is Err
ClockSkewed(p, t) == p.timestamp > t

\* The first element at which the closure of remove_stale_and_over_used
\* panics, 0 if it returns for all: is_over_used() short-circuits the && for
\* an over-used element.
PanicsAt(rs, t) ==
    LET S == {i \in DOMAIN rs : ~IsOverUsed(rs[i]) /\ ClockSkewed(rs[i], t)}
    IN  IF S = {} THEN 0 ELSE CHOOSE i \in S : \A j \in S : i <= j

\* The first element at which the closure of remove_stale panics, 0 if none
StalePanicsAt(rs, t) ==
    LET S == {i \in DOMAIN rs : ClockSkewed(rs[i], t)}
    IN  IF S = {} THEN 0 ELSE CHOOSE i \in S : \A j \in S : i <= j

\* Vec::retain unwinding at element k: the elements before k are filtered,
\* element k and those after it are kept.
RetainUnwound(rs, t, k) ==
    RemoveStaleAndOverUsed(SubSeq(rs, 1, k - 1), t) \o SubSeq(rs, k, Len(rs))
RetainStaleUnwound(rs, t, k) ==
    RemoveStale(SubSeq(rs, 1, k - 1), t) \o SubSeq(rs, k, Len(rs))

SkewSamples(t) ==
    {NewProbeResult(t, r, 1, b) : r \in {1, 5}, b \in BackendPool}
    \cup {[NewProbeResult(t, 1, 1, Bk(1)) EXCEPT !.used_count = MAX_USES_BEFORE_EXPIRE]}

\* table.add_result(sample)
SAddResult(sample) ==
    /\ ops < MaxOps
    /\ ~Poisoned
    /\ LET k == PanicsAt(results, now)
           r == AddResult(results, sample, now)
       IN  IF k = 0
           THEN /\ results' = r.results
                /\ max_rif' = r.max_rif
                /\ last' = Call("add_result", sample, sample.backend, Returned(None))
           ELSE /\ results' = RetainUnwound(results, now, k)
                /\ max_rif' = max_rif
                /\ last' = Call("add_result", sample, sample.backend, Unwound)
    /\ ops' = ops + 1
    /\ UNCHANGED <<now>>
    /\ UNCHANGED <<directorVars, simVars>>

\* table.find_best()
SFindBest ==
    /\ ops < MaxOps
    /\ ~Poisoned
    /\ LET k == IF Len(results) = 0 THEN 0 ELSE PanicsAt(results, now)
           pruned == FindBestPrune(results, now)
       IN  IF k = 0
           THEN /\ results' = pruned
                /\ last' = Call("find_best", NoSample, None,
                                Returned(BestBackend(pruned, BestIdx(pruned, max_rif))))
           ELSE /\ results' = RetainUnwound(results, now, k)
                /\ last' = Call("find_best", NoSample, None, Unwound)
    /\ ops' = ops + 1
    /\ UNCHANGED <<max_rif, now>>
    /\ UNCHANGED <<directorVars, simVars>>

\* table.has_enough_probes(): remove_stale, then len
SHasEnoughProbes ==
    /\ ops < MaxOps
    /\ ~Poisoned
    /\ LET k == StalePanicsAt(results, now)
       IN  IF k = 0
           THEN /\ results' = RemoveStale(results, now)
                /\ last' = Call("has_enough_probes", NoSample, None,
                                Returned(HasEnoughProbes(Len(results'))))
           ELSE /\ results' = RetainStaleUnwound(results, now, k)
                /\ last' = Call("has_enough_probes", NoSample, None, Unwound)
    /\ ops' = ops + 1
    /\ UNCHANGED <<max_rif, now>>
    /\ UNCHANGED <<directorVars, simVars>>

\* table.display_results(): the age of every sample is formatted
SDisplayResults ==
    /\ ops < MaxOps
    /\ ~Poisoned
    /\ last' = Call("display_results", NoSample, None,
                    IF StalePanicsAt(results, now) = 0
                    THEN Returned(DisplayResults(results, now))
                    ELSE Unwound)
    /\ ops' = ops + 1
    /\ UNCHANGED <<results, max_rif, now>>
    /\ UNCHANGED <<directorVars, simVars>>

\* the wall clock is set back by d
ClockBack(d) ==
    /\ ~Poisoned
    /\ now - d >= 0
    /\ now' = now - d
    /\ UNCHANGED <<results, max_rif, last, ops>>
    /\ UNCHANGED <<directorVars, simVars>>

SkewTick(d) ==
    /\ ~Poisoned
    /\ TTick(d)

NextSkew ==
    \/ \E sample \in SkewSamples(now) : SAddResult(sample)
    \/ SFindBest
    \/ SHasEnoughProbes
    \/ SDisplayResults
    \/ \E d \in {1, MAX_PROBE_AGE} : ClockBack(d)
    \/ \E d \in TickSteps : SkewTick(d)

SpecSkew == InitTable /\ [][NextSkew]_vars

----------------------------------------------------------------------------
(* SpecRace: one caller of get_backend while the probe loop inserts samples
   whose rif moves the cached max_rif between 4 and 5 *)

RaceResponses == {[rif |-> 1, lat |-> 2], [rif |-> 4, lat |-> 1], [rif |-> 5, lat |-> 1]}

NextRace ==
    \/ \E c \in ClockCallers : GetBackendBegin(c)
    \/ \E c \in ClockCallers : FindBestChoose(c)
    \/ \E c \in ClockCallers : GetBackendReturn(c)
    \/ ProbeOnTrigger
    \/ \E i \in 1..MaxBackends, resp \in RaceResponses : ProbeValid(i, resp)

SpecRace == InitProbe /\ [][NextRace]_vars


\* The last Arc<Director> outside the probe loop is dropped; no call on the
\* Director is in progress then, and none can start afterwards.
DropDirector ==
    /\ alive
    /\ rm_pc = "idle"
    /\ ReadersOf = {}
    /\ alive' = FALSE
    /\ UNCHANGED <<results, max_rif, now, last, ops, backends, sel_pc, probes, sel_ret,
                   seen, rm_pc, rm_arg, pl_pc, to_probe, removed, trigger, uses, mutex, simVars>>

\* A step of the probe loop
LoopStep ==
    \/ ProbeOnTrigger
    \/ EnsureProbePool
    \/ \E i \in 1..MaxBackends, resp \in ProbeResponses : ProbeValid(i, resp)
    \/ \E i \in 1..MaxBackends : ProbeFailed(i)

\* The Director until it is dropped, and the probe loop after that.  The loop
\* is a thread of its own: recv_timeout returns after PROBE_INTERVAL at the
\* latest and every request has a timeout of 5 s, so a step of the loop that
\* stays possible is taken.
NextDrop ==
    \/ \E b \in BackendPool : AddBackend(b)
    \/ TriggerProbe
    \/ DropDirector
    \/ LoopStep

SpecDrop == Init /\ [][NextDrop]_vars /\ WF_vars(LoopStep)

\* The probe loop's timeout path on tables around half of PROBE_TABLE_SIZE:
\* the backend set holds 0, 3 or PoolBackends backends, the table 1, 7, 8 or 9
\* samples of which the first 0 or 2 were taken a second before the others;
\* the clock advances and every probe of a refill round fails.
PoolBackends == 9
PoolSet(n) == [h \in 1..n |-> Bk(h)]
PoolTable(k, old) ==
    [h \in 1..k |-> NewProbeResult(IF h <= old THEN 0 ELSE 1, 1, h, Bk(h))]

InitPool ==
    /\ results \in {PoolTable(k, old) : k \in {1, 7, 8, 9}, old \in {0, 2}}
    /\ max_rif = MaxRifOf(results)
    /\ now = 1
    /\ last = NoCall
    /\ ops = 0
    /\ backends \in {PoolSet(n) : n \in {0, 3, PoolBackends}}
    /\ sel_pc = [c \in Callers |-> "idle"]
    /\ probes = [c \in Callers |-> <<>>]
    /\ sel_ret = [c \in Callers |-> NoRet]
    /\ seen = [c \in Callers |-> NotSeen]
    /\ rm_pc = "idle"
    /\ rm_arg = 0
    /\ pl_pc = "wait"
    /\ to_probe = <<>>
    /\ removed = {}
    /\ trigger = 0
    /\ alive = TRUE
    /\ mutex = Free
    /\ SimIdle
    /\ uses = <<>>

NextPool ==
    \/ EnsureProbePool
    \/ ProbeFailed(1)
    \/ \E d \in TickSteps : Tick(d)

SpecPool == InitPool /\ [][NextPool]_vars

----------------------------------------------------------------------------
(* SpecHealth: test_director_probe_table_health.  A director of PoolBackends
   backends that all answer validly, its probe loop, one thread that calls
   get_backend and has_enough_probes after it; a request may take long
   enough for earlier samples to age. *)

InitHealth ==
    /\ results = <<>>
    /\ max_rif = 0
    /\ now = 0
    /\ last = NoCall
    /\ ops = 0
    /\ backends = PoolSet(PoolBackends)
    /\ sel_pc = [c \in Callers |-> "idle"]
    /\ probes = [c \in Callers |-> <<>>]
    /\ sel_ret = [c \in Callers |-> NoRet]
    /\ seen = [c \in Callers |-> NotSeen]
    /\ rm_pc = "idle"
    /\ rm_arg = 0
    /\ pl_pc = "wait"
    /\ to_probe = <<>>
    /\ removed = {}
    /\ trigger = 0
    /\ alive = TRUE
    /\ mutex = Free
    /\ SimIdle
    /\ uses = <<>>

\* The outcomes of choose_multiple followed here: the first three backends
\* for a round of DEFAULT_PROBE_COUNT, the first eight for a refill.
TriggerRound == ProbeOnTrigger /\ to_probe' = SubSeq(backends, 1, DEFAULT_PROBE_COUNT)
RefillRound ==
    /\ EnsureProbePool
    /\ (pl_pc' = "probing") => (to_probe' = SubSeq(backends, 1, PROBE_TABLE_SIZE \div 2))

\* the requests of a round are made one after the other, each answered by
\* 200 with X-In-Flight: 1 and X-Estimated-Latency: 1
HealthStep ==
    \/ TriggerRound
    \/ RefillRound
    \/ ProbeValid(1, [rif |-> 1, lat |-> 1])

\* the calling thread asserts has_enough_probes() on the return of a
\* get_backend call (the check does not touch the backend set, so it commutes
\* with the drop of the read guard)
HealthCheck == THasEnoughProbes /\ \E c \in ClockCallers : sel_pc[c] = "done"

NextHealth ==
    \/ \E c \in ClockCallers : GetBackendBegin(c)
    \/ \E c \in ClockCallers : FindBestChoose(c)
    \/ \E c \in ClockCallers : GetBackendReturn(c)
    \/ HealthStep
    \/ HealthCheck
    \/ Tick(MAX_PROBE_AGE + 1)

SpecHealth == InitHealth /\ [][NextHealth]_vars

----------------------------------------------------------------------------
(* SpecLocks: the operations of the Director at the grain of their lock
   acquisitions.  The RwLock of the backend set is held as in Spec (by the
   callers that are not idle, by remove_backend while rm_pc is not idle);
   mutex names the thread inside a critical section of the table's Mutex.
   Further positions: a caller is "reading" (read guard held, before
   find_best) or "in_table" (inside find_best's critical section);
   remove_backend is "writing" (write guard held) or "purging" (inside
   probe_table.remove_backend); the probe loop is "pruning" (inside
   remove_stale), "pruned" (before len), "refill" (before probe_backends) or
   "inserting" (inside add_result).  The host registers the backend of
   handle 1, once or more, and removes any handle. *)

CallerThread(c) == <<"caller", c>>
VclThread == <<"vcl">>
LoopThread == <<"loop">>

GuardKept(holder) == holder
\* the MutexGuard goes out of scope at the end of the critical section
GuardDropped(holder) == Free

\* get_backend: backends.read(), is_empty, probe_trigger.send
LGetBackendRead(c) ==
    /\ alive
    /\ sel_pc[c] = "idle"
    /\ ReadLockFree
    /\ trigger + TriggersSent(backends) <= MaxTriggers
    /\ trigger' = trigger + TriggersSent(backends)
    /\ IF Len(backends) = 0
       THEN /\ sel_ret' = [sel_ret EXCEPT ![c] = ErrNoBackends]
            /\ sel_pc' = [sel_pc EXCEPT ![c] = "done"]
       ELSE /\ sel_pc' = [sel_pc EXCEPT ![c] = "reading"]
            /\ UNCHANGED sel_ret
    /\ UNCHANGED <<results, max_rif, now, last, ops, backends, probes, seen, rm_pc,
                   rm_arg, pl_pc, to_probe, removed, uses, alive, mutex, simVars>>

\* find_best: self.results.lock()
LFindBestLock(c) ==
    /\ sel_pc[c] = "reading"
    /\ mutex = Free
    /\ mutex' = CallerThread(c)
    /\ sel_pc' = [sel_pc EXCEPT ![c] = "in_table"]
    /\ UNCHANGED <<results, max_rif, now, last, ops, backends, probes, sel_ret, seen,
                   rm_pc, rm_arg, pl_pc, to_probe, removed, trigger, uses, alive>>
    /\ UNCHANGED simVars

\* find_best: is_empty, prune, clone, end of the block
LFindBestClone(c) ==
    /\ sel_pc[c] = "in_table"
    /\ mutex = CallerThread(c)
    /\ seen' = [seen EXCEPT ![c] = Seen(results, now)]
    /\ IF Len(results) = 0
       THEN /\ Fallback(c)
            /\ sel_pc' = [sel_pc EXCEPT ![c] = "done"]
            /\ UNCHANGED <<results, probes>>
       ELSE /\ results' = FindBestPrune(results, now)
            /\ probes' = [probes EXCEPT ![c] = results']
            /\ sel_pc' = [sel_pc EXCEPT ![c] = "cloned"]
            /\ UNCHANGED sel_ret
    /\ mutex' = GuardDropped(mutex)
    /\ UNCHANGED <<max_rif, now, last, ops, backends, rm_pc, rm_arg, pl_pc, to_probe,
                   removed, trigger, uses, alive>>
    /\ UNCHANGED simVars

\* is_healthy: has_probes locks, reads and unlocks
LIsHealthy ==
    /\ mutex = Free
    /\ last' = Call("is_healthy", NoSample, None, HasProbes(results))
    /\ UNCHANGED <<results, max_rif, now, ops>>
    /\ UNCHANGED <<directorVars, simVars>>

\* remove_backend: backends.write()
LRemoveWrite(h) ==
    /\ alive
    /\ WriteLockFree
    /\ rm_pc' = "writing"
    /\ rm_arg' = h
    /\ UNCHANGED <<results, max_rif, now, last, ops, backends, sel_pc, probes, sel_ret,
                   seen, pl_pc, to_probe, removed, trigger, uses, alive, mutex, simVars>>

\* remove_backend: find, and for a known backend the lock() of
\* probe_table.remove_backend
LRemoveFind ==
    /\ rm_pc = "writing"
    /\ IF FindBackend(backends, rm_arg) = 0
       THEN /\ rm_pc' = "unknown"
            /\ UNCHANGED mutex
       ELSE /\ mutex = Free
            /\ mutex' = VclThread
            /\ rm_pc' = "purging"
    /\ UNCHANGED <<results, max_rif, now, last, ops, backends, sel_pc, probes, sel_ret,
                   seen, rm_arg, pl_pc, to_probe, removed, trigger, uses, alive>>
    /\ UNCHANGED simVars

\* probe_table.remove_backend: retain, end of the block
LRemovePurge ==
    /\ rm_pc = "purging"
    /\ mutex = VclThread
    /\ results' = PurgeBackend(results, backends[FindBackend(backends, rm_arg)])
    /\ mutex' = GuardDropped(mutex)
    /\ rm_pc' = "purged"
    /\ UNCHANGED <<max_rif, now, last, ops, backends, sel_pc, probes, sel_ret, seen,
                   rm_arg, pl_pc, to_probe, removed, trigger, uses, alive>>
    /\ UNCHANGED simVars

\* remove_backend: backends.retain, the write guard is dropped on return
LRemoveFinish ==
    /\ rm_pc \in {"unknown", "purged"}
    /\ RemoveBackendFinish

\* ensure_probe_pool after a timeout: has_enough_probes, remove_stale locks
LEnsureLock ==
    /\ pl_pc = "wait"
    /\ trigger = 0
    /\ mutex = Free
    /\ mutex' = LoopThread
    /\ pl_pc' = "pruning"
    /\ UNCHANGED <<results, max_rif, now, last, ops, backends, sel_pc, probes, sel_ret,
                   seen, rm_pc, rm_arg, to_probe, removed, trigger, uses, alive>>
    /\ UNCHANGED simVars

\* remove_stale: retain, end of the block
LEnsurePrune ==
    /\ pl_pc = "pruning"
    /\ mutex = LoopThread
    /\ results' = RemoveStale(results, now)
    /\ mutex' = GuardDropped(mutex)
    /\ pl_pc' = "pruned"
    /\ UNCHANGED <<max_rif, now, last, ops, backends, sel_pc, probes, sel_ret, seen,
                   rm_pc, rm_arg, to_probe, removed, trigger, uses, alive>>
    /\ UNCHANGED simVars

\* has_enough_probes: len() locks, reads and unlocks
LEnsureLen ==
    /\ pl_pc = "pruned"
    /\ mutex = Free
    /\ pl_pc' = IF HasEnoughProbes(Len(results)) THEN LoopTop ELSE "refill"
    /\ UNCHANGED <<results, max_rif, now, last, ops, backends, sel_pc, probes, sel_ret,
                   seen, rm_pc, rm_arg, to_probe, removed, trigger, uses, alive, mutex, simVars>>

\* ensure_probe_pool: probe_backends(PROBE_TABLE_SIZE / 2), the snapshot
LRefill ==
    /\ pl_pc = "refill"
    /\ ReadLockFree
    /\ StartRound(PROBE_TABLE_SIZE \div 2)
    /\ UNCHANGED <<results, max_rif, now, last, ops, backends, sel_pc, probes, sel_ret,
                   seen, rm_pc, rm_arg, removed, trigger, uses, alive, mutex, simVars>>

\* the next backend of the round answered validly: add_result locks
LProbeLock ==
    /\ pl_pc = "probing"
    /\ mutex = Free
    /\ mutex' = LoopThread
    /\ pl_pc' = "inserting"
    /\ UNCHANGED <<results, max_rif, now, last, ops, backends, sel_pc, probes, sel_ret,
                   seen, rm_pc, rm_arg, to_probe, removed, trigger, uses, alive>>
    /\ UNCHANGED simVars

\* add_result: the body, end of the block
LProbeInsert(resp) ==
    /\ pl_pc = "inserting"
    /\ mutex = LoopThread
    /\ LET r == AddResult(results, NewProbeResult(now, resp.rif, resp.lat, to_probe[1]), now)
       IN  /\ results' = r.results
           /\ max_rif' = r.max_rif
    /\ uses' = ResetUse(to_probe[1].handle)
    /\ to_probe' = Tail(to_probe)
    /\ pl_pc' = IF Len(to_probe) = 1 THEN LoopTop ELSE "probing"
    /\ mutex' = GuardDropped(mutex)
    /\ UNCHANGED <<now, last, ops, backends, sel_pc, probes, sel_ret, seen, rm_pc,
                   rm_arg, removed, trigger, alive>>
    /\ UNCHANGED simVars

\* the steps that start an operation
LockStart ==
    \/ AddBackend(Bk(1))
    \/ \E h \in DirHandles : LRemoveWrite(h)
    \/ \E c \in ClockCallers : LGetBackendRead(c)
    \/ LIsHealthy
    \/ ProbeOnTrigger
    \/ LEnsureLock

\* the steps that continue a get_backend under way
CallerContinue(c) ==
    \/ LFindBestLock(c)
    \/ LFindBestClone(c)
    \/ FindBestChoose(c)
    \/ GetBackendReturn(c)

\* the steps that continue a remove_backend under way
VclContinue ==
    \/ LRemoveFind
    \/ LRemovePurge
    \/ LRemoveFinish

\* the steps that continue a pass of the probe loop; the requests of a round
\* are made one after the other, each answers or times out
LoopContinue ==
    \/ LEnsurePrune
    \/ LEnsureLen
    \/ LRefill
    \/ LProbeLock
    \/ LProbeInsert([rif |-> 1, lat |-> 1])
    \/ ProbeFailed(1)

LockContinue ==
    \/ \E c \in ClockCallers : CallerContinue(c)
    \/ VclContinue
    \/ LoopContinue

NextLocks == LockStart \/ LockContinue

SpecLocks == Init /\ [][NextLocks]_vars

\* Every thread is scheduled, and a thread that finds a lock free again and
\* again eventually takes it.
SpecLocksFair ==
    /\ SpecLocks
    /\ \A c \in ClockCallers : SF_vars(CallerContinue(c))
    /\ SF_vars(VclContinue)
    /\ SF_vars(LoopContinue)

----------------------------------------------------------------------------
(* SpecTrigger: triggers and the rounds that answer them.  The Director
   stays alive; its set holds DEFAULT_PROBE_COUNT backends, of which
   remove_backend takes some away; trigger_probe and get_backend send
   triggers, up to MaxPending of them waiting in the channel at once. *)

MaxPending == 2

InitTrigger ==
    /\ results = <<>>
    /\ max_rif = 0
    /\ now = 0
    /\ last = NoCall
    /\ ops = 0
    /\ backends = PoolSet(DEFAULT_PROBE_COUNT)
    /\ sel_pc = [c \in Callers |-> "idle"]
    /\ probes = [c \in Callers |-> <<>>]
    /\ sel_ret = [c \in Callers |-> NoRet]
    /\ seen = [c \in Callers |-> NotSeen]
    /\ rm_pc = "idle"
    /\ rm_arg = 0
    /\ pl_pc = "wait"
    /\ to_probe = <<>>
    /\ removed = {}
    /\ trigger = 0
    /\ uses = <<>>
    /\ alive = TRUE
    /\ mutex = Free
    /\ SimIdle

\* Director::trigger_probe while triggers are waiting in the channel
TriggerProbeAgain ==
    /\ alive
    /\ trigger > 0
    /\ trigger < MaxPending
    /\ trigger' = trigger + 1
    /\ UNCHANGED <<results, max_rif, now, last, ops, backends, sel_pc, probes, sel_ret,
                   seen, rm_pc, rm_arg, pl_pc, to_probe, removed, uses, alive, mutex, simVars>>

\* the request of the round in progress returns or times out
ProbeReturns ==
    \/ ProbeValid(1, [rif |-> 1, lat |-> 1])
    \/ ProbeFailed(1)

NextTrigger ==
    \/ TriggerProbe
    \/ TriggerProbeAgain
    \/ \E c \in ClockCallers : GetBackendBegin(c)
    \/ \E c \in ClockCallers : FindBestChoose(c)
    \/ \E c \in ClockCallers : GetBackendReturn(c)
    \/ \E h \in DirHandles : RemoveBackendBegin(h)
    \/ RemoveBackendFinish
    \/ ProbeOnTrigger
    \/ EnsureProbePool
    \/ ProbeReturns

\* The loop thread runs: recv_timeout returns the trigger at the head of the
\* channel, the read lock is granted to a thread that asks for it again and
\* again, every request returns or times out, and remove_backend returns.
SpecTrigger ==
    /\ InitTrigger
    /\ [][NextTrigger]_vars
    /\ SF_vars(ProbeOnTrigger)
    /\ WF_vars(ProbeReturns)
    /\ WF_vars(RemoveBackendFinish)

----------------------------------------------------------------------------
(* SpecBackend: one SimulatedBackend of the simulation and MaxRequests tasks
   that call process_request again and again.  A call is "admitted" between
   its fetch_add and the fetch_sub after its sleep, "rejecting" between its
   fetch_add and the fetch_sub of the Overloaded branch, "ok" or "err" when
   it has returned. *)

Capacity == 2
MaxRequests == 3
Requests == 1..MaxRequests

NotCalled == [pc |-> "idle", rif |-> 0]

AdmitsAtCapacity(rif) == rif <= Capacity
\* if rif >= self.capacity { .. return Err(BackendError::Overloaded) }
Admits(rif) == rif < Capacity

InitBackend ==
    /\ results = <<>>
    /\ max_rif = 0
    /\ now = 0
    /\ last = NoCall
    /\ ops = 0
    /\ DirectorIdle
    /\ current_rif = 0
    /\ req = [r \in Requests |-> NotCalled]
    /\ BalancerIdle
    /\ LibIdle

\* let rif = self.current_rif.fetch_add(1, Ordering::SeqCst), and the test
FetchAdd(r) ==
    /\ req[r].pc = "idle"
    /\ current_rif' = current_rif + 1
    /\ req' = [req EXCEPT ![r] = [pc |-> IF Admits(current_rif) THEN "admitted" ELSE "rejecting",
                                  rif |-> current_rif]]
    /\ UNCHANGED <<results, max_rif, now, last, ops, directorVars, balancerVars, libVars>>

\* the Overloaded branch: fetch_sub(1), return Err
Reject(r) ==
    /\ req[r].pc = "rejecting"
    /\ current_rif' = current_rif - 1
    /\ req' = [req EXCEPT ![r].pc = "err"]
    /\ UNCHANGED <<results, max_rif, now, last, ops, directorVars, balancerVars, libVars>>

\* the sleep is over: fetch_sub(1), return Ok(latency)
Complete(r) ==
    /\ req[r].pc = "admitted"
    /\ current_rif' = current_rif - 1
    /\ req' = [req EXCEPT ![r].pc = "ok"]
    /\ UNCHANGED <<results, max_rif, now, last, ops, directorVars, balancerVars, libVars>>

\* the task makes its next call
CallAgain(r) ==
    /\ req[r].pc \in {"ok", "err"}
    /\ req' = [req EXCEPT ![r] = NotCalled]
    /\ UNCHANGED <<results, max_rif, now, last, ops, directorVars, current_rif,
                   balancerVars, libVars>>

NextBackend ==
    \/ \E r \in Requests : FetchAdd(r)
    \/ \E r \in Requests : Reject(r)
    \/ \E r \in Requests : Complete(r)
    \/ \E r \in Requests : CallAgain(r)

SpecBackend == InitBackend /\ [][NextBackend]_vars

----------------------------------------------------------------------------
(* SpecSim: the PrequalBalancer of the simulation next to the ProbeTable,
   both started empty and given the same insertions and selections at the
   same instant.  A backend of the simulation has the id of its handle. *)

MaxSteps == 5

\* ProbeResult::new of prequal.rs
SimProbeResult(id, t, rif, lat) ==
    [backend_id |-> id, timestamp |-> t, rif |-> rif, est_latency |-> lat, used_count |-> 0]

\* is_stale: timestamp.elapsed() > MAX_PROBE_AGE, which is half a second
SimIsStale(p, t) == 2 * (t - p.timestamp) > 1
\* is_over_used of prequal.rs
SimIsOverUsed(p) == p.used_count >= MAX_USES_BEFORE_EXPIRE

\* table.retain(|p| !p.is_stale() && !p.is_over_used())
SimRetain(tb, t) == SelectSeq(tb, LAMBDA p : ~SimIsStale(p, t) /\ ~SimIsOverUsed(p))

\* PrequalBalancer::remove_worst_probe, the text of probe.rs remove_worst_probe
SimRemoveWorstProbe(tb, m) == RemoveWorstProbe(tb, m)

\* while table.len() > self.probe_table_size, with the default size
RECURSIVE SimEvictLoop(_, _)
SimEvictLoop(tb, m) ==
    IF Len(tb) > PROBE_TABLE_SIZE THEN SimEvictLoop(SimRemoveWorstProbe(tb, m), m) ELSE tb

\* PrequalBalancer::probe_backends for a sample of one backend
SimProbeBackends(tb, probe, t) ==
    LET pruned == SimRetain(tb, t)
        others == SelectSeq(pruned, LAMBDA p : p.backend_id # probe.backend_id)
        pushed == Append(others, probe)
        m == MaxRifOf(pushed)
    IN  [table |-> SimEvictLoop(pushed, m), max_rif |-> m]

\* PrequalBalancer::find_best: the table it leaves and the id it returns
SimFindBest(tb, m, t) ==
    LET pruned == SimRetain(tb, t)
        idx == BestIdx(pruned, m)
    IN  IF idx = 0 THEN [table |-> pruned, ret |-> 0]
        ELSE [table |-> [pruned EXCEPT ![idx].used_count = @ + 1],
              ret |-> pruned[idx].backend_id]

InitSim ==
    /\ results = <<>>
    /\ max_rif = 0
    /\ now = 0
    /\ last = NoCall
    /\ ops = 0
    /\ DirectorIdle
    /\ SimIdle

\* the same sample is stored in both tables
BothInsert(h, rif, lat) ==
    /\ ops < MaxSteps
    /\ LET r == AddResult(results, NewProbeResult(now, rif, lat, Bk(h)), now)
       IN  /\ results' = r.results
           /\ max_rif' = r.max_rif
           /\ last' = Call("add_result", NewProbeResult(now, rif, lat, Bk(h)), Bk(h), None)
    /\ LET r == SimProbeBackends(sim_table, SimProbeResult(h, now, rif, lat), now)
       IN  /\ sim_table' = r.table
           /\ sim_max_rif' = r.max_rif
    /\ ops' = ops + 1
    /\ UNCHANGED <<now, sim_ret, directorVars, backendVars, libVars>>

\* both tables are asked for their best backend
BothFindBest ==
    /\ ops < MaxSteps
    /\ LET pruned == FindBestPrune(results, now)
           idx == BestIdx(pruned, max_rif)
       IN  /\ results' = pruned
           /\ last' = Call("find_best", NoSample, None, BestBackend(pruned, idx))
    /\ LET r == SimFindBest(sim_table, sim_max_rif, now)
       IN  /\ sim_table' = r.table
           /\ sim_ret' = r.ret
    /\ ops' = ops + 1
    /\ UNCHANGED <<max_rif, now, sim_max_rif, directorVars, backendVars, libVars>>

NextSim ==
    \/ \E h \in DirHandles, resp \in ProbeResponses : BothInsert(h, resp.rif, resp.lat)
    \/ BothFindBest

SpecSim == InitSim /\ [][NextSim]_vars

----------------------------------------------------------------------------
(* SpecLib: the ProbeTable of lib.rs, a Vec of PROBE_TABLE_SIZE slots, and
   sequential calls of its add_result.  The slots are numbered from 0; an
   empty slot (None) holds NoSample. *)

MaxInserts == 3

\* vec![None; PROBE_TABLE_SIZE]
EmptySlots == [i \in 0..(PROBE_TABLE_SIZE - 1) |-> NoSample]

\* The results handed to add_result: ProbeResult::new(in_flight, est_latency, backend)
LibResults ==
    {NewProbeResult(0, r, 1, Bk(h)) : r \in {1, 5, 6}, h \in 1..2}

InitLib ==
    /\ results = <<>>
    /\ max_rif = 0
    /\ now = 0
    /\ last = NoCall
    /\ ops = 0
    /\ DirectorIdle
    /\ BackendIdle
    /\ BalancerIdle
    /\ slots = EmptySlots
    /\ next_index = 0
    /\ inserted = <<>>

\* the slot add_result writes: next_index.fetch_add(1) % PROBE_TABLE_SIZE
SlotOf(index) == index % PROBE_TABLE_SIZE

\* add_result of lib.rs, called sequentially: fetch_add, results[idx] =
\* Some(result), next_index.store(idx)
LibAddResult(result) ==
    /\ Len(inserted) < MaxInserts
    /\ LET idx == SlotOf(next_index)
       IN  /\ slots' = [slots EXCEPT ![idx] = result]
           /\ next_index' = idx
    /\ inserted' = Append(inserted, result)
    /\ UNCHANGED <<results, max_rif, now, last, ops, directorVars, backendVars, balancerVars>>

NextLib == \E result \in LibResults : LibAddResult(result)

SpecLib == InitLib /\ [][NextLib]_vars

----------------------------------------------------------------------------
(* Claims *)

\* C1: after every ProbeTable call (the mutex is free between calls) the
\* table holds at most PROBE_TABLE_SIZE samples.
Thm_C1 == Len(results) <= PROBE_TABLE_SIZE

\* an add_result for a new backend found PROBE_TABLE_SIZE live samples, so one
\* sample had to be evicted
Wit_C1 ==
    /\ last.op = "add_result"
    /\ Len(last.before) = PROBE_TABLE_SIZE
    /\ \A i \in DOMAIN last.before :
          /\ last.before[i].backend.handle # last.sample.backend.handle
          /\ last.before[i].used_count < MAX_USES_BEFORE_EXPIRE
          /\ last.at - last.before[i].timestamp <= MAX_PROBE_AGE
    /\ Len(results) = PROBE_TABLE_SIZE

\* C2: the table never holds two samples whose backends have the same handle.
Thm_C2 ==
    \A i, j \in DOMAIN results :
        i # j => results[i].backend.handle # results[j].backend.handle

\* an add_result for a handle that had a live sample under another name
Wit_C2 ==
    /\ last.op = "add_result"
    /\ \E i \in DOMAIN last.before :
          /\ last.before[i].backend.handle = last.sample.backend.handle
          /\ last.before[i].backend.name # last.sample.backend.name
          /\ last.before[i].used_count < MAX_USES_BEFORE_EXPIRE
          /\ last.at - last.before[i].timestamp <= MAX_PROBE_AGE
    /\ \E i \in DOMAIN results : results[i] = last.sample

\* C3: a get_backend that has its result in hand (it began after every
\* returned remove_backend, which needs the write lock) does not return a
\* backend whose handle was removed and not added again.
CE_C3 ==
    \A c \in Callers :
        (sel_pc[c] = "done" /\ sel_ret[c].status = "ok")
            => sel_ret[c].backend.handle \notin removed

\* C4: with a non-empty backend set, get_backend returns a backend that is in
\* the set it holds the read lock on.
CE_C4 ==
    \A c \in Callers :
        (sel_pc[c] = "done" /\ Len(backends) > 0)
            => /\ sel_ret[c].status = "ok"
               /\ \E i \in DOMAIN backends :
                     backends[i].handle = sel_ret[c].backend.handle

\* C5: a stored sample is returned by at most MAX_USES_BEFORE_EXPIRE
\* get_backend calls.
CE_C5 == \A h \in DOMAIN uses : uses[h] <= MAX_USES_BEFORE_EXPIRE

\* C6: find_best never returns the backend of a sample that was stored with
\* used_count >= MAX_USES_BEFORE_EXPIRE when it ran, and leaves no such sample
\* in the table.
Thm_C6 ==
    last.op = "find_best" =>
        \A i \in DOMAIN last.before :
            last.before[i].used_count >= MAX_USES_BEFORE_EXPIRE
                => /\ last.before[i].backend.handle # last.ret.handle
                   /\ \A j \in DOMAIN results : results[j] # last.before[i]

\* find_best found a fresh over-used sample beside others and returned a backend
Wit_C6 ==
    /\ last.op = "find_best"
    /\ last.ret # None
    /\ \E i \in DOMAIN last.before :
          /\ last.before[i].used_count >= MAX_USES_BEFORE_EXPIRE
          /\ last.at - last.before[i].timestamp <= MAX_PROBE_AGE

\* C7: get_backend never returns, from the table, a sample older than
\* MAX_PROBE_AGE when find_best pruned; when every sample it found was older
\* (or there was none) it returns a member of the backend set by the fallback.
Thm_C7 ==
    \A c \in Callers :
        (sel_pc[c] = "done" /\ sel_ret[c].status = "ok")
            => /\ sel_ret[c].from_table
                    => seen[c].at - sel_ret[c].sample.timestamp <= MAX_PROBE_AGE
               /\ (\A i \in DOMAIN seen[c].before :
                       seen[c].at - seen[c].before[i].timestamp > MAX_PROBE_AGE)
                    => /\ ~sel_ret[c].from_table
                       /\ \E i \in DOMAIN backends : backends[i] = sel_ret[c].backend

\* get_backend found only stale samples in the table and fell back
Wit_C7 ==
    \E c \in Callers :
        /\ sel_pc[c] = "done"
        /\ sel_ret[c].status = "ok"
        /\ ~sel_ret[c].from_table
        /\ Len(seen[c].before) > 0
        /\ \A i \in DOMAIN seen[c].before :
              seen[c].at - seen[c].before[i].timestamp > MAX_PROBE_AGE

\* The samples of rs that are cold against the true maximum rif of rs
TrueCold(rs) == {i \in DOMAIN rs : 5 * rs[i].rif <= 4 * MaxRifOf(rs)}

\* C8: find_best on a table whose maximum rif M is positive and that has a
\* sample with rif <= floor(0.8 M) returns a sample with rif <= floor(0.8 M)
\* of minimal est_latency among those.
CE_C8 ==
    (last.op = "find_best" /\ MaxRifOf(results) > 0 /\ TrueCold(results) # {})
        => \E i \in TrueCold(results) :
              /\ results[i].backend = last.ret
              /\ \A j \in TrueCold(results) :
                    results[i].est_latency <= results[j].est_latency

\* C9: find_best on a non-empty table all of whose samples have
\* rif > floor(0.8 M) returns a sample of minimal rif.
CE_C9 ==
    (last.op = "find_best" /\ Len(results) > 0 /\ TrueCold(results) = {})
        => \E i \in DOMAIN results :
              /\ results[i].backend = last.ret
              /\ \A j \in DOMAIN results : results[i].rif <= results[j].rif

\* C10: after every ProbeTable call the cached max_rif is the maximum rif of
\* the samples in the table, 0 for an empty table.
CE_C10 == max_rif = MaxRifOf(results)

\* C11: remove_worst_probe on a non-empty list removes exactly one sample and
\* keeps the others in order; with T = floor(0.8 * max_rif), the removed
\* sample has rif > T and the highest est_latency among the samples with
\* rif > T when there is one, else the highest est_latency of all (all cold).
Thm_C11 ==
    (last.op = "remove_worst_probe" /\ Len(last.before) > 0) =>
        LET before == last.before
            T == (4 * last.before_max) \div 5
            hot == {i \in DOMAIN before : before[i].rif > T}
        IN  \E k \in DOMAIN before :
                /\ Len(results) = Len(before) - 1
                /\ \A i \in DOMAIN results :
                      results[i] = IF i < k THEN before[i] ELSE before[i + 1]
                /\ IF hot # {}
                   THEN /\ k \in hot
                        /\ \A j \in hot : before[j].est_latency <= before[k].est_latency
                   ELSE \A j \in DOMAIN before :
                            before[j].est_latency <= before[k].est_latency

\* remove_worst_probe removed a hot sample although a cold sample had a
\* strictly higher latency
Wit_C11 ==
    /\ last.op = "remove_worst_probe"
    /\ Len(results) = Len(last.before) - 1
    /\ \E k \in DOMAIN last.before :
          /\ 5 * last.before[k].rif > 4 * last.before_max
          /\ \A i \in DOMAIN results : results[i].backend # last.before[k].backend
          /\ \E j \in DOMAIN last.before :
                /\ 5 * last.before[j].rif <= 4 * last.before_max
                /\ last.before[j].est_latency > last.before[k].est_latency

\* add_result found PROBE_TABLE_SIZE live samples, none of the new sample's
\* backend, all with a rif below the new sample's and at most floor(0.8 * it)
FullColdInsert ==
    /\ last.op = "add_result"
    /\ Len(last.before) = PROBE_TABLE_SIZE
    /\ \A i \in DOMAIN last.before :
          /\ last.before[i].used_count < MAX_USES_BEFORE_EXPIRE
          /\ last.at - last.before[i].timestamp <= MAX_PROBE_AGE
          /\ last.before[i].backend.handle # last.sample.backend.handle
          /\ last.before[i].rif < last.sample.rif
          /\ 5 * last.before[i].rif <= 4 * last.sample.rif

\* C12: an add_result of a new backend's sample into a table of
\* PROBE_TABLE_SIZE live samples, whose rif is the new maximum while every
\* stored rif is at most floor(0.8 * that maximum), leaves the table's samples
\* exactly as they were: the inserted sample is the one evicted.
Thm_C12 == FullColdInsert => results = last.before

\* such an insert happened with a sample of lower latency than a stored one,
\* and the table holds the original samples
Wit_C12 ==
    /\ FullColdInsert
    /\ results = last.before
    /\ \E i \in DOMAIN last.before :
          last.before[i].est_latency > last.sample.est_latency

\* add_result of a sample as ProbeResult::new builds it found a live sample of
\* the same backend in a table within its capacity
ReplacingInsert ==
    /\ last.op = "add_result"
    /\ last.sample.used_count = 0
    /\ Len(last.before) <= PROBE_TABLE_SIZE
    /\ \E i \in DOMAIN last.before :
          /\ last.before[i].backend.handle = last.sample.backend.handle
          /\ last.before[i].used_count < MAX_USES_BEFORE_EXPIRE
          /\ last.at - last.before[i].timestamp <= MAX_PROBE_AGE

\* C13: an add_result for a backend that has a live sample leaves exactly one
\* sample of that backend, the inserted one (its rif, est_latency, timestamp
\* and used_count 0), and keeps every live sample of the other backends, in
\* their order.
Thm_C13 ==
    ReplacingInsert =>
        LET before == last.before
            kept == {i \in DOMAIN before :
                        /\ before[i].backend.handle # last.sample.backend.handle
                        /\ before[i].used_count < MAX_USES_BEFORE_EXPIRE
                        /\ last.at - before[i].timestamp <= MAX_PROBE_AGE}
            mine == {j \in DOMAIN results :
                        results[j].backend.handle = last.sample.backend.handle}
        IN  /\ Cardinality(mine) = 1
            /\ \A j \in mine :
                  /\ results[j].rif = last.sample.rif
                  /\ results[j].est_latency = last.sample.est_latency
                  /\ results[j].timestamp = last.at
                  /\ results[j].used_count = 0
            /\ \A i \in kept : \E j \in DOMAIN results : results[j] = before[i]
            /\ \A i1, i2 \in kept :
                  i1 < i2 => \E j1, j2 \in DOMAIN results :
                                /\ j1 < j2
                                /\ results[j1] = before[i1]
                                /\ results[j2] = before[i2]

\* a full table held a live sample of the backend with other values, and the
\* insert replaced it
Wit_C13 ==
    /\ ReplacingInsert
    /\ Len(last.before) = PROBE_TABLE_SIZE
    /\ Len(results) = PROBE_TABLE_SIZE
    /\ \E i \in DOMAIN last.before :
          /\ last.before[i].backend.handle = last.sample.backend.handle
          /\ last.before[i].rif # last.sample.rif
          /\ last.before[i].est_latency # last.sample.est_latency
    /\ \E j \in DOMAIN results : results[j] = last.sample

\* C14: when remove_backend(h) returns, the backend set holds no backend with
\* handle h and the probe table no sample of handle h.
CE_C14 ==
    [][RemoveBackendFinish =>
          /\ \A i \in DOMAIN backends' : backends'[i].handle # rm_arg
          /\ \A i \in DOMAIN results' : results'[i].backend.handle # rm_arg]_vars

NoLive(rs, t) ==
    \A i \in DOMAIN rs :
        \/ t - rs[i].timestamp > MAX_PROBE_AGE
        \/ rs[i].used_count >= MAX_USES_BEFORE_EXPIRE

\* C16: a get_backend on a non-empty backend set whose find_best found no live
\* sample (none at all, or only stale or over-used ones) returns Ok with a
\* member of the set, not from the table, and find_best leaves the table empty.
Thm_C16 ==
    /\ [](\A c \in Callers :
             (sel_pc[c] = "done" /\ seen[c].called /\ NoLive(seen[c].before, seen[c].at))
                 => /\ sel_ret[c].status = "ok"
                    /\ ~sel_ret[c].from_table
                    /\ \E i \in DOMAIN backends : backends[i] = sel_ret[c].backend)
    /\ [][\A c \in Callers :
             (GetBackendBegin(c) /\ Len(backends) > 0 /\ NoLive(results, now))
                 => results' = <<>>]_vars

\* get_backend found only stale samples, emptied the table and returned the
\* second of two backends by the fallback
Wit_C16 ==
    \E c \in Callers :
        /\ sel_pc[c] = "done"
        /\ sel_ret[c].status = "ok"
        /\ ~sel_ret[c].from_table
        /\ Len(seen[c].before) > 0
        /\ NoLive(seen[c].before, seen[c].at)
        /\ Len(backends) = 2
        /\ sel_ret[c].backend = backends[2]
        /\ backends[1] # backends[2]
        /\ results = <<>>

\* C17: the backend set holds at most one entry per handle.
CE_C17 ==
    \A i, j \in DOMAIN backends : i # j => backends[i].handle # backends[j].handle

\* C18: remove_backend with a handle that no backend of the set has changes
\* neither the backend set nor the probe table nor the cached max_rif, from its
\* lookup to its return.
Thm_C18 ==
    /\ [][\A h \in DirHandles :
             (RemoveBackendBegin(h) /\ \A i \in DOMAIN backends : backends[i].handle # h)
                 => /\ rm_pc' = "unknown"
                    /\ UNCHANGED <<backends, results, max_rif>>]_vars
    /\ [][(RemoveBackendFinish /\ rm_pc = "unknown")
                 => UNCHANGED <<backends, results, max_rif>>]_vars

\* remove_backend did not find its handle in a non-empty set while the table
\* held a sample of that handle
Wit_C18 ==
    /\ rm_pc = "unknown"
    /\ Len(backends) > 0
    /\ \E i \in DOMAIN results : results[i].backend.handle = rm_arg

\* C19: no caller of get_backend has entered find_best's critical section (the
\* probe-table mutex) while holding the read guard of the backend set, and
\* remove_backend has not purged the table (the same mutex) while holding the
\* write guard.
CE_C19 ==
    /\ \A c \in Callers : ~(c \in ReadersOf /\ seen[c].called)
    /\ rm_pc # "purged"

\* C20: while a probe request is outstanding the probe loop holds no lock: a
\* get_backend, add_backend or remove_backend that no other caller's guard
\* stops can take its lock, and one that has started can finish.
Thm_C20 ==
    pl_pc = "probing" =>
        /\ \A c \in Callers :
              (sel_pc[c] = "idle" /\ rm_pc = "idle"
                  /\ trigger + TriggersSent(backends) <= MaxTriggers)
                  => ENABLED GetBackendBegin(c)
        /\ \A c \in Callers : sel_pc[c] = "cloned" => ENABLED FindBestChoose(c)
        /\ \A c \in Callers : sel_pc[c] = "done" => ENABLED GetBackendReturn(c)
        /\ (rm_pc = "idle" /\ ReadersOf = {})
              => \A h \in DirHandles : ENABLED RemoveBackendBegin(h)
        /\ rm_pc # "idle" => ENABLED RemoveBackendFinish
        /\ (rm_pc = "idle" /\ ReadersOf = {} /\ Len(backends) < MaxBackends)
              => \A b \in BackendPool : ENABLED AddBackend(b)

\* a probe request is outstanding and no caller holds a guard of the backend set
Wit_C20 ==
    /\ pl_pc = "probing"
    /\ Len(to_probe) > 0
    /\ rm_pc = "idle"
    /\ ReadersOf = {}
    /\ Len(backends) < MaxBackends

\* C21: the probe_trigger channel holds fewer triggers than were sent to it
\* without the loop taking one: a send on a channel at its bound is dropped.
\* (The senders of the model stop at MaxTriggers pending triggers; the bound
\* of the channel would have to be below that, whatever MaxTriggers is.)
CE_C21 == trigger < MaxTriggers

\* C22: once the last outside reference is dropped the probe loop exits, and
\* it does not come back to its wait: it finishes the iteration it is in.
Thm_C22 ==
    /\ (~alive) ~> (pl_pc = "exited")
    /\ [][~alive => pl_pc' # "wait"]_vars

\* the loop has exited after the drop while a trigger was still in the channel
Wit_C22 ==
    /\ ~alive
    /\ pl_pc = "exited"
    /\ trigger > 0
    /\ Len(results) > 0

\* C23: a round started on a trigger probes min(DEFAULT_PROBE_COUNT, n)
\* backends of the set of n backends it finds, no two of them the same backend.
CE_C23 ==
    [][ProbeOnTrigger =>
          /\ Len(to_probe') = Min(DEFAULT_PROBE_COUNT, Len(backends))
          /\ \A i \in DOMAIN to_probe' : \E k \in DOMAIN backends : backends[k] = to_probe'[i]
          /\ \A i, j \in DOMAIN to_probe' :
                i # j => to_probe'[i].handle # to_probe'[j].handle]_vars

\* C24: when the wait times out, the samples older than MAX_PROBE_AGE are
\* removed; then a round of min(PROBE_TABLE_SIZE / 2, n) probes of distinct
\* members of the set starts if fewer than PROBE_TABLE_SIZE / 2 samples are
\* left, and no probe is issued otherwise.
Thm_C24 ==
    [][EnsureProbePool =>
          LET left == SelectSeq(results, LAMBDA p : now - p.timestamp <= MAX_PROBE_AGE)
          IN  /\ results' = left
              /\ IF 2 * Len(left) < PROBE_TABLE_SIZE
                 THEN /\ 2 * Len(to_probe') = Min(PROBE_TABLE_SIZE, 2 * Len(backends))
                      /\ \A i \in DOMAIN to_probe' :
                            \E k \in DOMAIN backends : backends[k] = to_probe'[i]
                      /\ \A i, j \in DOMAIN to_probe' :
                            i # j => to_probe'[i].handle # to_probe'[j].handle
                      /\ pl_pc' = IF Len(backends) = 0 THEN "wait" ELSE "probing"
                 ELSE /\ to_probe' = <<>>
                      /\ pl_pc' = "wait"]_vars

\* the timeout path pruned a table of 9 samples to 7 and started a refill
\* round of 8 of the 9 backends
Wit_C24 ==
    /\ pl_pc = "probing"
    /\ 2 * Len(to_probe) = PROBE_TABLE_SIZE
    /\ Len(backends) = PoolBackends
    /\ Len(results) = 7
    /\ \A i \in DOMAIN results : results[i].timestamp = 1
    /\ now = MAX_PROBE_AGE + 1

\* A header that is present and is a non-empty string of decimal digits, with
\* or without a "+" before them; and the number it denotes
Unsigned(text) == IF Len(text) > 0 /\ text[1] = "+" THEN Tail(text) ELSE text
IsNatHeader(h) ==
    /\ h.present
    /\ Len(Unsigned(h.text)) > 0
    /\ \A k \in DOMAIN Unsigned(h.text) : \E d \in 0..9 : DigitChars[d + 1] = Unsigned(h.text)[k]
RECURSIVE Decimal(_)
Decimal(ds) ==
    IF Len(ds) = 0 THEN 0
    ELSE 10 * Decimal(SubSeq(ds, 1, Len(ds) - 1))
         + (CHOOSE d \in 0..9 : DigitChars[d + 1] = ds[Len(ds)])

\* C25: the probe of a backend stores a sample iff the request returned a
\* response of status 200 whose X-In-Flight and X-Estimated-Latency are both
\* non-negative integers; the sample carries the two numbers, the time of the
\* insert and used_count 0.  Every other outcome leaves the table and max_rif
\* as they were.  Either way the round goes on with the backends left.
Thm_C25 ==
    [][\A i \in 1..MaxBackends, r \in HttpResponses :
          ProbeAnswer(i, r) =>
              /\ to_probe' = [k \in 1..(Len(to_probe) - 1) |->
                                 IF k < i THEN to_probe[k] ELSE to_probe[k + 1]]
              /\ IF r.ok /\ r.status = 200 /\ IsNatHeader(r.in_flight)
                      /\ IsNatHeader(r.est_latency)
                 THEN \E j \in DOMAIN results' :
                         results'[j] = [timestamp |-> now,
                                        rif |-> Decimal(Unsigned(r.in_flight.text)),
                                        est_latency |-> Decimal(Unsigned(r.est_latency.text)),
                                        used_count |-> 0,
                                        backend |-> to_probe[i]]
                 ELSE /\ results' = results
                      /\ max_rif' = max_rif]_vars

\* a round of two backends has stored the sample of one valid response (rif
\* 10, latency 5), skipped a backend and reached the loop's wait
Wit_C25 ==
    /\ pl_pc = "wait"
    /\ Len(backends) = 2
    /\ Len(results) = 1
    /\ results[1].rif = 10
    /\ results[1].est_latency = 5
    /\ results[1].timestamp = now
    /\ now > 0

Live(p, t) == IsFresh(p, t) /\ ~IsOverUsed(p)
LiveOf(rs, t) == SelectSeq(rs, LAMBDA p : Live(p, t))

\* C26: what a reading operation returns is computed from the live samples
\* alone: the size is the number of live samples, has_probes and is_healthy
\* tell whether there is a live sample, the half-full check compares the
\* number of live samples with half the capacity, the snapshot lists the live
\* samples, and select returns the backend of a live sample.
CE_C26 ==
    LET live == LiveOf(last.before, last.at)
    IN  /\ last.op = "len" => last.ret = Len(live)
        /\ last.op \in {"has_probes", "is_healthy"} => last.ret = (Len(live) > 0)
        /\ last.op = "has_enough_probes" => last.ret = (2 * Len(live) >= PROBE_TABLE_SIZE)
        /\ last.op = "display_results" => last.ret = DisplayResults(live, last.at)
        /\ last.op = "find_best" /\ last.ret # None =>
              \E i \in DOMAIN live : live[i].backend = last.ret

\* C27: is_healthy returns TRUE exactly when the table holds a sample at the
\* call, and the call leaves the table, max_rif and the backend set alone.
Thm_C27 ==
    /\ [](last.op = "is_healthy" => last.ret = (Len(last.before) > 0))
    /\ [][IsHealthy => /\ results' = results
                       /\ max_rif' = max_rif
                       /\ backends' = backends]_vars

\* is_healthy has answered TRUE for a director of two backends on a table
\* whose samples are all older than MAX_PROBE_AGE
Wit_C27 ==
    /\ last.op = "is_healthy"
    /\ last.ret = TRUE
    /\ Len(backends) = 2
    /\ Len(results) = PROBE_TABLE_SIZE
    /\ \A i \in DOMAIN results : ~IsFresh(results[i], now)

\* The candidates of a selection from the table ps under the cached maximum
\* m (the cold samples if there is one, else all of them), the key that
\* decides among them, and the candidates of minimal key.
Candidates(ps, m) ==
    IF \E i \in DOMAIN ps : ps[i].rif <= Threshold(m)
    THEN {i \in DOMAIN ps : ps[i].rif <= Threshold(m)}
    ELSE DOMAIN ps
DecidingKey(ps, m, i) ==
    IF \E k \in DOMAIN ps : ps[k].rif <= Threshold(m) THEN ps[i].est_latency ELSE ps[i].rif
Tied(ps, m) ==
    {i \in Candidates(ps, m) :
        \A j \in Candidates(ps, m) : DecidingKey(ps, m, i) <= DecidingKey(ps, m, j)}

\* C28: what find_best returns is determined by the samples the table holds
\* after its pruning, their order and the cached max_rif: None for an empty
\* table, else the backend of the earliest-inserted sample among the
\* candidates tied on the minimal deciding key.
Thm_C28 ==
    last.op = "find_best" =>
        IF Len(results) = 0 THEN last.ret = None
        ELSE \E i \in Tied(results, last.before_max) :
                /\ \A j \in Tied(results, last.before_max) : i <= j
                /\ last.ret = results[i].backend

\* find_best has chosen among two or more cold samples of the same minimal
\* latency, none of which is the first sample of the table
Wit_C28 ==
    /\ last.op = "find_best"
    /\ Cardinality(Tied(results, last.before_max)) > 1
    /\ \E i \in DOMAIN results : results[i].rif <= Threshold(last.before_max)
    /\ 1 \notin Tied(results, last.before_max)
    /\ last.ret # None

\* C29: with the clock set back before the timestamp of a stored sample, a
\* table operation returns normally, and a sample that is not over-used and
\* whose timestamp is later than the clock stays in the table.
CE_C29 ==
    last.op # "none" =>
        /\ ~last.ret.panicked
        /\ \A i \in DOMAIN last.before :
              (ClockSkewed(last.before[i], last.at) /\ ~IsOverUsed(last.before[i])
               /\ (last.op = "add_result" => ~BackendEq(last.before[i].backend, last.backend)))
              => \E j \in DOMAIN results : results[j] = last.before[i]

\* C30: the backend a selection returns from the table is the HCL choice for
\* the one table state the call locked: that table pruned, under the max_rif
\* cached at that moment.
CE_C30 ==
    \A c \in Callers :
        (sel_pc[c] = "done" /\ seen[c].called /\ sel_ret[c].from_table) =>
            LET ps == FindBestPrune(seen[c].before, seen[c].at)
            IN  sel_ret[c].backend = BestBackend(ps, BestIdx(ps, seen[c].max))

\* the entries of a backend set, and the samples of a table, whose handle is not h
OtherBackends(bs, h) == SelectSeq(bs, LAMBDA b : b.handle # h)
OtherSamples(rs, h) == SelectSeq(rs, LAMBDA p : p.backend.handle # h)

\* C31: remove_backend(h) leaves the entries of the backend set whose handle
\* is not h as they were, names included and in the same order, adds none,
\* and leaves the samples of the other backends in the table, in order.
Thm_C31 ==
    [][/\ \A h \in DirHandles :
             RemoveBackendBegin(h) =>
                 /\ OtherSamples(results', h) = OtherSamples(results, h)
                 /\ Len(results') <= Len(results)
                 /\ backends' = backends
       /\ RemoveBackendFinish =>
             /\ OtherBackends(backends', rm_arg) = OtherBackends(backends, rm_arg)
             /\ Len(backends') <= Len(backends)
             /\ results' = results]_vars

\* remove_backend(1) has purged the table of a director of the backends 1
\* and 2 and is about to retain: a sample of backend 2 is still stored
Wit_C31 ==
    /\ rm_pc = "purged"
    /\ rm_arg = 1
    /\ Len(backends) = 2
    /\ \E i \in DOMAIN backends : backends[i].handle = 2
    /\ \E i \in DOMAIN results : results[i].backend.handle = 2

\* The table rs held at least PROBE_TABLE_SIZE / 2 live samples at the moment
\* its latest sample was inserted: add_result stamps the sample with the time
\* of the insert, and the samples of rs were all in the table then.
HeldHalfFull(rs) ==
    \E i \in DOMAIN rs : 2 * Len(LiveOf(rs, rs[i].timestamp)) >= PROBE_TABLE_SIZE

\* what has_enough_probes returns when it is called now
CheckPasses == HasEnoughProbes(Len(RemoveStale(results, now)))

\* C32: once the table has held at least 8 live samples, has_enough_probes
\* returns true at every later check that follows a select (the claim's "stays
\* true at every later check while select calls continue").
CE_C32 ==
    \A c \in Callers :
        (sel_pc[c] = "done" /\ seen[c].called /\ seen[c].at = now
         /\ HeldHalfFull(seen[c].before))
            => CheckPasses

\* an operation is under way
InProgress ==
    \/ \E c \in Callers : sel_pc[c] # "idle"
    \/ rm_pc # "idle"
    \/ pl_pc \notin {"wait", "exited"}

\* a thread inside a critical section of the table's Mutex is at a position
\* where it requests no lock: a caller and remove_backend took the
\* backend-set lock before, the probe loop holds no other lock
LockOrder ==
    /\ \A c \in Callers : mutex = CallerThread(c) => sel_pc[c] = "in_table"
    /\ mutex = VclThread => rm_pc = "purging"
    /\ mutex = LoopThread => pl_pc \in {"pruning", "inserting"}

\* C33: the table's Mutex is only ever requested after the backend-set lock,
\* never the reverse; whenever an operation is under way some operation under
\* way can take its next step (no reachable state is a deadlock); and every
\* get_backend, remove_backend and pass of the probe loop that has started
\* eventually completes.
Thm_C33 ==
    /\ [](LockOrder /\ (InProgress => ENABLED LockContinue))
    /\ \A c \in ClockCallers : (sel_pc[c] # "idle") ~> (sel_pc[c] = "idle")
    /\ (rm_pc # "idle") ~> (rm_pc = "idle")
    /\ (pl_pc # "wait") ~> (pl_pc = "wait")

\* get_backend waits for the Mutex inside add_result of the probe loop while
\* remove_backend waits for the write lock
Wit_C33 ==
    /\ \E c \in Callers : sel_pc[c] = "reading"
    /\ mutex = LoopThread
    /\ pl_pc = "inserting"
    /\ rm_pc = "idle"
    /\ Len(backends) > 0

\* C34: whenever no thread is inside a critical section of the table, the
\* cached max_rif is at least the rif of every stored sample.
Thm_C34 == mutex = Free => \A i \in DOMAIN results : results[i].rif <= max_rif

\* add_result has just stored a maximum that no remaining sample reaches: the
\* hottest sample of the pushed table was the one evicted
Wit_C34 ==
    /\ mutex = Free
    /\ last.op = "add_result"
    /\ Len(results) = PROBE_TABLE_SIZE
    /\ max_rif > MaxRifOf(results)

\* add_result's table after results.push(result), before the eviction loop
Pushed(rs, sample, t) == Append(Dedup(RemoveStaleAndOverUsed(rs, t), sample.backend), sample)

\* C35: every add_result finds at most PROBE_TABLE_SIZE samples, so at most
\* PROBE_TABLE_SIZE + 1 after the push; a pass of the eviction loop removes
\* exactly one sample; the loop body runs 0 or 1 time, and the insert ends
\* with the pushed table less the samples evicted.
Thm_C35 ==
    last.op = "add_result" =>
        LET pushed == Pushed(last.before, last.sample, last.at)
            m == MaxRifOf(pushed)
        IN  /\ Len(last.before) <= PROBE_TABLE_SIZE
            /\ Len(pushed) <= PROBE_TABLE_SIZE + 1
            /\ Len(pushed) > PROBE_TABLE_SIZE =>
                  Len(RemoveWorstProbe(pushed, m)) = Len(pushed) - 1
            /\ EvictPasses(pushed, m) \in {0, 1}
            /\ Len(results) = Len(pushed) - EvictPasses(pushed, m)

\* an add_result whose eviction loop ran once
Wit_C35 ==
    /\ last.op = "add_result"
    /\ EvictPasses(Pushed(last.before, last.sample, last.at),
                   MaxRifOf(Pushed(last.before, last.sample, last.at))) = 1
    /\ Len(results) = PROBE_TABLE_SIZE

\* C36: a get_backend that found backends answers Ok; it answers from the
\* table exactly when the table held a live sample when find_best locked it,
\* and then with the backend of one of those live samples; it takes the
\* random fallback, an entry of the backend set, only when there was none.
Thm_C36 ==
    \A c \in Callers :
        (sel_pc[c] = "done" /\ seen[c].called) =>
            LET live == LiveOf(seen[c].before, seen[c].at)
                ret == sel_ret[c]
            IN  /\ ret.status = "ok"
                /\ ret.from_table = (Len(live) > 0)
                /\ ret.from_table => \E i \in DOMAIN live : live[i].backend = ret.backend
                /\ ~ret.from_table => \E i \in DOMAIN backends : backends[i] = ret.backend

\* get_backend answered from a table whose live samples were all hot
Wit_C36 ==
    \E c \in Callers :
        /\ sel_pc[c] = "done"
        /\ sel_ret[c].from_table
        /\ \A i \in DOMAIN seen[c].before :
              /\ Live(seen[c].before[i], seen[c].at)
              /\ seen[c].before[i].rif > Threshold(seen[c].max)

\* the loop takes a trigger and starts the round of probe_backends(DEFAULT_PROBE_COUNT)
RoundOnTrigger ==
    /\ pl_pc = "wait"
    /\ trigger' = trigger - 1
    /\ to_probe' \in ChooseMultiple(backends, DEFAULT_PROBE_COUNT)
    /\ Len(to_probe') = Min(DEFAULT_PROBE_COUNT, Len(backends))
    /\ pl_pc' = IF Len(to_probe') = 0 THEN "wait" ELSE "probing"

\* C37: while the Director is alive, the channel is empty again and again or
\* the loop takes a trigger again and again, so that every trigger of the
\* first-in first-out channel is eventually taken; the number of waiting triggers grows only by one, on a send, and
\* falls only by one, in a step of the loop that starts a round of
\* probe_backends(DEFAULT_PROBE_COUNT); the loop starts no round while a
\* trigger waits without taking one, so that no trigger is lost or merged.
Thm_C37 ==
    /\ []<>(trigger = 0) \/ []<><<ProbeOnTrigger>>_vars
    /\ [][/\ trigger' > trigger => trigger' = trigger + 1
          /\ trigger' < trigger => RoundOnTrigger
          /\ (trigger > 0 /\ pl_pc = "wait" /\ pl_pc' # "wait") => trigger' = trigger - 1]_vars

\* a round of DEFAULT_PROBE_COUNT backends answers one trigger while the next
\* trigger waits in the channel
Wit_C37 ==
    /\ alive
    /\ pl_pc = "probing"
    /\ Len(to_probe) = DEFAULT_PROBE_COUNT
    /\ trigger = MaxPending - 1
    /\ Len(results) > 0

\* the calls at position pc
CallsAt(pcs) == {r \in DOMAIN req : req[r].pc \in pcs}

\* C38: under every interleaving of process_request calls, at most capacity
\* calls are admitted and being processed at once; current_rif counts the
\* calls between their fetch_add and their fetch_sub, so a call that has
\* returned, rejected as Overloaded or not, has left the counter as it found
\* it; and when no call is under way current_rif is 0.
Thm_C38 ==
    /\ Cardinality(CallsAt({"admitted"})) <= Capacity
    /\ current_rif = Cardinality(CallsAt({"admitted", "rejecting"}))
    /\ CallsAt({"admitted", "rejecting"}) = {} => current_rif = 0
    /\ \A r \in CallsAt({"err"}) : req[r].rif >= Capacity
    /\ \A r \in CallsAt({"admitted", "ok"}) : req[r].rif < Capacity

\* the backend is full, one more call was rejected and has returned
Wit_C38 ==
    /\ Cardinality(CallsAt({"admitted"})) = Capacity
    /\ CallsAt({"err"}) # {}
    /\ current_rif = Capacity

\* a sample of the ProbeTable and one of the simulation's table are the same
SameSample(p, q) ==
    /\ p.backend.handle = q.backend_id
    /\ p.rif = q.rif
    /\ p.est_latency = q.est_latency
    /\ p.timestamp = q.timestamp
    /\ p.used_count = q.used_count

\* C39: after every step of the same sequence of insertions and selections,
\* with no time passing, the ProbeTable and the simulation's table hold the
\* same samples with the same used_counts, and a selection has returned the
\* same backend (or none) from both.
CE_C39 ==
    /\ Len(results) = Len(sim_table)
    /\ \A i \in DOMAIN results : i \in DOMAIN sim_table /\ SameSample(results[i], sim_table[i])
    /\ max_rif = sim_max_rif
    /\ last.op = "find_best" => last.ret.handle = sim_ret

\* the slots that hold a result
Filled == {i \in DOMAIN slots : slots[i] # NoSample}

\* C40: the k-th sequential add_result writes slot (k - 1) mod
\* PROBE_TABLE_SIZE, so after k inserts the table holds min(k,
\* PROBE_TABLE_SIZE) results, the most recently inserted ones.
CE_C40 ==
    LET k == Len(inserted)
    IN  /\ Cardinality(Filled) = Min(k, PROBE_TABLE_SIZE)
        /\ \A j \in 1..k :
              j > k - PROBE_TABLE_SIZE => slots[(j - 1) % PROBE_TABLE_SIZE] = inserted[j]

====
